---- MODULE Spec2Model ----
(***************************************************************************)
(* Model of kusto-dashboard-manager: the snapshot parsers with their       *)
(* creator filter (dashboard_export.py, mcp_server.py,                     *)
(* dashboard_list_parser.py) and the stdio JSON-RPC clients                *)
(* (playwright_mcp_client.py, working-py-mcp-client.py).                   *)
(*                                                                         *)
(* Text is a sequence of one-character strings, so that lower(), strip(),  *)
(* split(), join() and the substring test `in` are computed, not assumed.  *)
(***************************************************************************)
EXTENDS Integers, Sequences, FiniteSets, TLC

VARIABLES
    snapshot,        \* the accessibility snapshot: a sequence of lines
    config_creator,  \* config.data["DASHBOARD_CREATOR_NAME"], or NoneStr when unset
    parse,           \* the last call of a parsing entry point and what it gave
    client_class,    \* the client class: "playwright" (PlaywrightMCPClient) or "working"
    proc,            \* self.proc: "None" or "Process"
    alive,           \* whether the child process of self.proc is running
    connected,       \* self.connected (PlaywrightMCPClient only)
    request_id,      \* self.request_id
    task,            \* where the client's one caller is: idle, or inside an operation
    to_peer,         \* the child's stdin: messages written and not yet taken by the peer
    from_peer,       \* the child's stdout: messages the peer wrote, not yet read
    desync,          \* a Content-Length read gave up inside a frame
    sent,            \* every message the client wrote, in order (history)
    last,            \* the last operation that returned, and what it returned
    attempts,        \* the initialize attempts of the current/last connect (history)
    diag,            \* what a failed connect surfaced: the response and the stderr text
    peer_versions,   \* the protocol versions the peer accepts
    notes,           \* how many notifications the peer has emitted
    command,         \* the caller: "free" use of the client, or export_command's position
    stdin,           \* self.stdin and the write side of the pipe: "None", "open", "closed"
    child,           \* the child process as disconnect meets it
    dis,             \* where a disconnect call is, what it did and how it ended
    tasks,           \* asyncio tasks sharing one client: where each is, and its result
    waiter,          \* the task suspended in stdout.readline(), 0 for none
    wire,            \* a stream handed to a decoder, and what was put on it
    dec,             \* the decoder that ran on the stream and what it gave
    response,        \* a response to tools/call as call_tool gets it
    returned,        \* the class whose call_tool ran on it and what it returned
    browser_launched,\* BrowserManager.browser_launched
    calls,           \* the tool calls BrowserManager made through its client, in order
    flow,            \* the last operation on the browser that ended, and how
    request,         \* the request the server's handle_request last took
    reply            \* the response handle_request returned for it

parser_vars == <<snapshot, config_creator, parse>>

client_vars ==
    <<client_class, proc, alive, connected, request_id, task, to_peer, from_peer, desync,
      sent, last, attempts, diag, peer_versions, notes, command>>

lifecycle_vars == <<stdin, child, dis>>

task_vars == <<tasks, waiter>>

codec_vars == <<wire, dec>>

tool_vars == <<response, returned>>

browser_vars == <<browser_launched, calls, flow>>

server_vars == <<request, reply>>

other_vars == <<lifecycle_vars, task_vars, codec_vars, tool_vars, browser_vars, server_vars>>

vars == <<parser_vars, client_vars, other_vars>>

----------------------------------------------------------------------------
(* Bounds of the model *)

MaxUnits == 2

\* request ids the client may use up in one behaviour
MaxRequests == 3

\* notifications the peer may emit in one behaviour
MaxNotes == 1

\* disconnect / shutdown calls made on one client in one behaviour
MaxDisconnects == 3

----------------------------------------------------------------------------
(* Python str operations *)

\* Python's None where a str is expected (a one-element tuple that is no text)
NoneStr == <<"None">>

Digits == {"0", "1", "2", "3"}

HexChars == Digits \cup {"a", "b", "-"}

Sp == <<" ">>

\* str.lower() on one character
LowerChar(c) ==
    CASE c = "J" -> "j"
      [] c = "G" -> "g"
      [] c = "S" -> "s"
      [] c = "E" -> "e"
      [] OTHER -> c

\* str.lower()
Lower(s) == [i \in 1..Len(s) |-> LowerChar(s[i])]

\* Python's `needle in hay` on str
Contains(hay, needle) ==
    \E i \in 0..(Len(hay) - Len(needle)) :
        SubSeq(hay, i + 1, i + Len(needle)) = needle

RECURSIVE LStrip(_)
LStrip(s) == IF s # <<>> /\ Head(s) = " " THEN LStrip(Tail(s)) ELSE s

RECURSIVE RStrip(_)
RStrip(s) ==
    IF s # <<>> /\ s[Len(s)] = " " THEN RStrip(SubSeq(s, 1, Len(s) - 1)) ELSE s

\* str.strip()
Strip(s) == RStrip(LStrip(s))

\* str.split(): the maximal runs of non-blank characters, in order
RECURSIVE SplitFrom(_, _, _)
SplitFrom(s, cur, acc) ==
    IF s = <<>>
    THEN IF cur = <<>> THEN acc ELSE Append(acc, cur)
    ELSE IF Head(s) = " "
         THEN SplitFrom(Tail(s), <<>>, IF cur = <<>> THEN acc ELSE Append(acc, cur))
         ELSE SplitFrom(Tail(s), Append(cur, Head(s)), acc)

Split(s) == SplitFrom(s, <<>>, <<>>)

\* " ".join(parts)
RECURSIVE Join(_)
Join(parts) ==
    IF parts = <<>> THEN <<>>
    ELSE IF Len(parts) = 1 THEN parts[1]
    ELSE parts[1] \o Sp \o Join(Tail(parts))

\* Python truthiness of an Optional[str]
Truthy(s) == s # NoneStr /\ s # <<>>

----------------------------------------------------------------------------
(* The stdio JSON-RPC clients: messages and the state after construction   *)

\* the id of a message that carries none (a notification; JSON null)
NullId == 0

\* versions = ["2024-11-05", "2024-08-19", "2024-07-01", "2024-06-01", None]
Versions == <<"2024-11-05", "2024-08-19", "2024-07-01", "2024-06-01", "no-version">>

\* the one version PlaywrightMCPClient.connect offers
PlaywrightVersion == "2024-11-05"

Request(id, method, version) == [id |-> id, method |-> method, version |-> version]

\* a message read from the peer: kind is "result", "error" (the key it carries) or
\* "notification"; NoResponse is _send_request's None
Response(id, msgkind) == [id |-> id, kind |-> msgkind]

NoResponse == Response(NullId, "none")

Idle == [op |-> "idle", step |-> "idle", id |-> NullId, vi |-> 0]

NoDiag == [surfaced |-> FALSE, resp |-> NoResponse, stderr |-> FALSE]

NothingReturned ==
    [op |-> "none", id |-> NullId, resp |-> NoResponse, value |-> "none",
     handshake |-> FALSE, exhausted |-> FALSE, left |-> <<>>]

\* PlaywrightMCPClient.__init__ / WorkingPyMCPClient.__init__, and a peer not yet started
\* no disconnect call made, none in progress
DisIdle == [pc |-> "idle", log |-> <<>>, raised |-> FALSE, calls |-> 0]

\* the step-by-step view of disconnect is not in use
LifecycleUnused == stdin = "None" /\ child = "none" /\ dis = DisIdle

\* asyncio tasks that may call the client at the same time
NumTasks == 2

\* characters in the content of a message put on the wire
MaxMsgLen == 2

\* the largest Content-Length a sender that miscounts declares
MaxDeclared == 4

\* tool calls already made when an operation on the browser may still start
MaxCalls == 2

MaxKeys == 2

\* dashboards on the list page of a bulk export
MaxDashboards == 2

\* read calls a decoder gets in before a deadline that is near, and one that is far
TightDeadline == 3

AmpleDeadline == 99

TaskIds == 1..NumTasks

TaskIdle == [pc |-> "idle", id |-> NullId, resp |-> NoResponse]

\* no second caller is looked at
TasksUnused == tasks = [t \in TaskIds |-> TaskIdle] /\ waiter = 0

NotDecoded == [by |-> "none"]

\* no stream is decoded
CodecUnused == wire = [framing |-> "none"] /\ dec = NotDecoded

NotReturned == [by |-> "none"]

\* no tool result is unwrapped
ToolUnused == response = [kind |-> "none"] /\ returned = NotReturned

NoFlow == [op |-> "none"]

\* BrowserManager.__init__: nothing launched, no call made
BrowserConstructed == browser_launched = FALSE /\ calls = <<>> /\ flow = NoFlow

NoRequest == [method |-> "none"]

NoReply == [id |-> NullId, keys |-> {}, code |-> 0, run |-> "running"]

\* the server has taken no request
ServerUnused == request = NoRequest /\ reply = NoReply

OthersUnused ==
    /\ LifecycleUnused /\ TasksUnused /\ CodecUnused /\ ToolUnused
    /\ BrowserConstructed /\ ServerUnused

ClientConstructed(k) ==
    /\ client_class = k
    /\ proc = "None"
    /\ alive = FALSE
    /\ connected = FALSE
    /\ request_id = 1
    /\ task = Idle
    /\ to_peer = <<>>
    /\ from_peer = <<>>
    /\ desync = FALSE
    /\ sent = <<>>
    /\ last = NothingReturned
    /\ attempts = <<>>
    /\ diag = NoDiag
    /\ notes = 0

----------------------------------------------------------------------------
(* The snapshot: one record per line, [kind, text].  kind is what the      *)
(* parsers' patterns tell apart: "row" (- row "text" [ref=), "rowheader"   *)
(* (rowheader "text"), "link" (link "text"), "url" (/url: /dashboards/text)*)
(* and "gridcell"; text is the quoted label, or what follows /dashboards/. *)

Line(kind, text) == [kind |-> kind, text |-> text]

UrlBase == <<"https://dataexplorer.azure.com/dashboards/">>

LookaheadSpan == 10

UuidLen == 36

Min(a, b) == IF a < b THEN a ELSE b

IsDigits(s) == \A i \in 1..Len(s) : s[i] \in Digits

\* re.match(r"\d{1,2}/\d{1,2}/\d{4}", part): a match at the start of part
DateMatch(part) ==
    \E a \in 1..2, b \in 1..2 :
        /\ Len(part) >= a + b + 6
        /\ IsDigits(SubSeq(part, 1, a))
        /\ part[a + 1] = "/"
        /\ IsDigits(SubSeq(part, a + 2, a + b + 1))
        /\ part[a + b + 2] = "/"
        /\ IsDigits(SubSeq(part, a + b + 3, a + b + 6))

\* the longest prefix matched by [a-f0-9-]+
RECURSIVE HexPrefix(_)
HexPrefix(s) ==
    IF s # <<>> /\ Head(s) \in HexChars THEN <<Head(s)>> \o HexPrefix(Tail(s)) ELSE <<>>

\* re.match(r'\s*-\s*row\s+"([^"]+)"\s+\[ref=', line)
RowMatch(line) == line.kind = "row" /\ line.text # <<>>

\* re.search(r'rowheader\s+"([^"]+)"', line)
NameMatch(line) == line.kind = "rowheader" /\ line.text # <<>>

\* re.search(r"/url:\s+/dashboards/([a-f0-9-]+)", line)
UrlMatch(line) == line.kind = "url" /\ HexPrefix(line.text) # <<>>

\* a look-ahead that ends at the URL line, whether or not the name was seen
RECURSIVE LookaheadEndsAtUrl(_, _, _, _, _)
LookaheadEndsAtUrl(lines, j, hi, url, name) ==
    IF j > hi THEN [url |-> url, name |-> name]
    ELSE LET name2 == IF NameMatch(lines[j]) /\ name = NoneStr
                      THEN lines[j].text ELSE name
             url2 == IF UrlMatch(lines[j])
                     THEN UrlBase \o HexPrefix(lines[j].text) ELSE url
         IN IF url2 # NoneStr
            THEN [url |-> url2, name |-> name2]
            ELSE LookaheadEndsAtUrl(lines, j + 1, hi, url2, name2)

\* the loop over j in range(i + 1, min(i + 10, len(lines))); lines[j] is 1-based here
RECURSIVE Lookahead(_, _, _, _, _)
Lookahead(lines, j, hi, url, name) ==
    IF j > hi THEN [url |-> url, name |-> name]
    ELSE LET name2 == IF NameMatch(lines[j]) /\ name = NoneStr
                      THEN lines[j].text ELSE name
             url2 == IF UrlMatch(lines[j])
                     THEN UrlBase \o HexPrefix(lines[j].text) ELSE url
         IN IF url2 # NoneStr /\ name2 # NoneStr
            THEN [url |-> url2, name |-> name2]
            ELSE Lookahead(lines, j + 1, hi, url2, name2)

\* the loop over parts: everything after the first date-shaped token
RECURSIVE CreatorAfterDate(_)
CreatorAfterDate(parts) ==
    IF parts = <<>> THEN <<>>
    ELSE IF DateMatch(Head(parts)) THEN Join(Tail(parts))
    ELSE CreatorAfterDate(Tail(parts))

ExtractCreator(row_text) ==
    LET creator == CreatorAfterDate(Split(row_text))
    IN Strip(IF creator = <<>> THEN <<"-", "-">> ELSE creator)

RECURSIVE ParseRawFrom(_, _, _)
ParseRawFrom(lines, p, dashboards) ==
    IF p > Len(lines) THEN dashboards
    ELSE IF RowMatch(lines[p])
         THEN LET found == Lookahead(lines, p + 1,
                                     Min(p + LookaheadSpan - 1, Len(lines)),
                                     NoneStr, NoneStr)
              IN IF found.url # NoneStr /\ found.name # NoneStr
                 THEN ParseRawFrom(lines, p + 1,
                          Append(dashboards,
                                 [url |-> found.url, name |-> found.name,
                                  creator |-> ExtractCreator(lines[p].text)]))
                 ELSE ParseRawFrom(lines, p + 1, dashboards)
         ELSE ParseRawFrom(lines, p + 1, dashboards)

\* DashboardExporter._parse_raw_snapshot_text
ParseRawSnapshotText(lines) == ParseRawFrom(lines, 1, <<>>)

\* `if creator_filter:` and the list comprehension under it
FilterByCreatorSubstring(dashboards, creator_filter) ==
    LET Keep(d) == Contains(Lower(d.creator), Lower(creator_filter))
    IN IF Truthy(creator_filter) THEN SelectSeq(dashboards, Keep) ELSE dashboards

----------------------------------------------------------------------------
(* DashboardListParser: the tree walker over the loaded snapshot.  A row's *)
(* children are the lines that follow its row line up to the next row line.*)

RECURSIVE RowChildren(_, _)
RowChildren(lines, p) ==
    IF p > Len(lines) \/ lines[p].kind = "row" THEN <<>>
    ELSE <<lines[p]>> \o RowChildren(lines, p + 1)

OfKind(children, kind) ==
    LET Is(l) == l.kind = kind IN SelectSeq(children, Is)

\* _find_dashboard_rows: the rows that have a rowheader child, in order
RECURSIVE FindDashboardRows(_, _)
FindDashboardRows(lines, p) ==
    IF p > Len(lines) THEN <<>>
    ELSE IF lines[p].kind = "row" /\ OfKind(RowChildren(lines, p + 1), "rowheader") # <<>>
         THEN <<RowChildren(lines, p + 1)>> \o FindDashboardRows(lines, p + 1)
         ELSE FindDashboardRows(lines, p + 1)

\* URL_PATTERN.search(url): exactly UuidLen characters of [a-f0-9-] after /dashboards/
UrlPatternId(text) ==
    IF Len(HexPrefix(text)) >= UuidLen THEN SubSeq(text, 1, UuidLen) ELSE NoneStr

\* _parse_row: <<d>> for a DashboardMetadata d, <<>> for `return None`
ParseRow(row_data) ==
    LET links == OfKind(row_data, "link")
        urls == OfKind(row_data, "url")
        has_link == links # <<>> /\ urls # <<>> /\ links[1].text # <<>> /\ urls[1].text # <<>>
        name == IF has_link THEN links[1].text ELSE NoneStr
        url == IF has_link THEN urls[1].text ELSE NoneStr
        dashboard_id == IF has_link THEN UrlPatternId(urls[1].text) ELSE NoneStr
        NonEmpty(l) == l.text # <<>>
        gridcell_values == SelectSeq(OfKind(row_data, "gridcell"), NonEmpty)
        created_by == IF Len(gridcell_values) >= 3 THEN Strip(gridcell_values[3].text) ELSE NoneStr
    IN IF Truthy(name) /\ Truthy(url) /\ Truthy(dashboard_id) /\ Truthy(created_by)
       THEN <<[url |-> url, name |-> name, creator |-> created_by,
               dashboard_id |-> dashboard_id]>>
       ELSE <<>>

RECURSIVE ParseRows(_)
ParseRows(rows) ==
    IF rows = <<>> THEN <<>>
    ELSE ParseRow(Head(rows)) \o ParseRows(Tail(rows))

\* `dashboard.created_by == self.required_creator` in parse_snapshot_yaml
FilterByCreatorEqual(dashboards, required_creator) ==
    LET Keep(d) == d.creator = required_creator
    IN SelectSeq(dashboards, Keep)

\* DashboardListParser.__init__: `not required_creator or not required_creator.strip()`
RequiredCreatorRejected(required_creator) ==
    ~Truthy(required_creator) \/ Strip(required_creator) = <<>>

----------------------------------------------------------------------------
(* The snapshots the model draws: up to MaxUnits row units, each rendered  *)
(* as the page renders a dashboard row.                                    *)

JasonGilbertson == <<"J", " ", "G">>

JasonLower == <<"j", " ", "g">>

SomeoneElse == <<"S", " ", "E">>

Creators == {JasonGilbertson, JasonLower, SomeoneElse}

Armprod == <<"a">>

TimeAgo == <<"1", " ", "h">>

DateText == <<"1", "/", "3", "/", "2", "0", "2", "0">>

GoodId == [i \in 1..UuidLen |-> IF i \in {9, 14, 19, 24} THEN "-" ELSE "a"]

\* row, rowheader > link > /url, then the three gridcells
UnitLines(row_text, has_url, creator) ==
    <<Line("row", row_text), Line("rowheader", Armprod), Line("link", Armprod)>>
    \o (IF has_url THEN <<Line("url", GoodId)>> ELSE <<>>)
    \o <<Line("gridcell", TimeAgo), Line("gridcell", DateText), Line("gridcell", creator)>>

UnitShapes ==
    UNION { { UnitLines(Armprod \o Sp \o TimeAgo \o Sp \o DateText \o Sp \o c, TRUE, c),
              UnitLines(Armprod \o Sp \o TimeAgo \o Sp \o c, TRUE, c),
              UnitLines(Armprod \o Sp \o TimeAgo \o Sp \o DateText \o Sp \o c, FALSE, c) }
            : c \in Creators }

RECURSIVE SnapshotsOf(_)
SnapshotsOf(n) ==
    IF n = 0 THEN {<<>>}
    ELSE LET shorter == SnapshotsOf(n - 1)
         IN shorter \cup {s \o u : s \in shorter, u \in UnitShapes}

Snapshots == SnapshotsOf(MaxUnits)

\* what a caller may pass as creator_filter / required_creator
CreatorArgs ==
    {NoneStr, <<>>, Sp, JasonGilbertson, JasonLower, SomeoneElse, <<"G">>,
     Sp \o JasonGilbertson \o Sp, <<"-", "-">>}

ConfigCreators == {NoneStr, JasonGilbertson}

NoParse ==
    [entry |-> "none", required |-> NoneStr, outcome |-> "none",
     parsed |-> <<>>, dashboards |-> <<>>, scanned |-> 0]

\* The entry points keep no state from one call to the next: a behaviour draws
\* a snapshot and a configuration and makes one call.
ParserIdle == parse.entry = "none"

ParserInit ==
    /\ snapshot \in Snapshots
    /\ config_creator \in ConfigCreators
    /\ parse = NoParse
    /\ ClientConstructed("playwright")
    /\ peer_versions = {}
    /\ command = "free"
    /\ OthersUnused

\* DashboardExporter.export_all_dashboards: the default for creator_filter, the
\* dashboard list, and the creator filter that gives the dashboards to export
ExportAllDashboards(creator_filter) ==
    LET effective == IF creator_filter = NoneStr
                     THEN (IF config_creator = NoneStr THEN <<>> ELSE config_creator)
                     ELSE creator_filter
        dashboards == ParseRawSnapshotText(snapshot)
    IN /\ ParserIdle
       /\ parse' = [entry |-> "export_all_dashboards", required |-> effective,
                    outcome |-> "returned", parsed |-> dashboards,
                    dashboards |-> FilterByCreatorSubstring(dashboards, effective),
                    scanned |-> Len(snapshot)]
       /\ UNCHANGED <<snapshot, config_creator, client_vars, other_vars>>

\* KustoDashboardMCPServer._parse_dashboards_from_snapshot, reached from the tools
\* parse_dashboards_from_snapshot and export_all_dashboards (tool names the entry)
ParseDashboardsFromSnapshot(tool, creator_filter) ==
    LET dashboards == ParseRawSnapshotText(snapshot)
    IN /\ ParserIdle
       /\ parse' = [entry |-> tool, required |-> creator_filter,
                    outcome |-> "returned", parsed |-> dashboards,
                    dashboards |-> FilterByCreatorSubstring(dashboards, creator_filter),
                    scanned |-> Len(snapshot)]
       /\ UNCHANGED <<snapshot, config_creator, client_vars, other_vars>>

\* DashboardListParser(required_creator).parse_snapshot_yaml(snapshot)
ListParserParse(required_creator) ==
    /\ ParserIdle
    /\ IF RequiredCreatorRejected(required_creator)
       THEN parse' = [entry |-> "DashboardListParser", required |-> required_creator,
                      outcome |-> "config_error", parsed |-> <<>>,
                      dashboards |-> <<>>, scanned |-> 0]
       ELSE IF snapshot = <<>>
       THEN parse' = [entry |-> "DashboardListParser",
                      required |-> Strip(required_creator),
                      outcome |-> "value_error", parsed |-> <<>>,
                      dashboards |-> <<>>, scanned |-> 0]
       ELSE LET dashboards == ParseRows(FindDashboardRows(snapshot, 1))
            IN parse' = [entry |-> "DashboardListParser",
                         required |-> Strip(required_creator),
                         outcome |-> "returned", parsed |-> dashboards,
                         dashboards |-> FilterByCreatorEqual(dashboards,
                                                             Strip(required_creator)),
                         scanned |-> Len(snapshot)]
    /\ UNCHANGED <<snapshot, config_creator, client_vars, other_vars>>

ParserNext ==
    \/ \E cf \in CreatorArgs : ExportAllDashboards(cf)
    \/ \E cf \in CreatorArgs :
           ParseDashboardsFromSnapshot("parse_dashboards_from_snapshot", cf)
    \/ \E cf \in CreatorArgs :
           ParseDashboardsFromSnapshot("export_all_dashboards_tool", cf)
    \/ \E rc \in CreatorArgs : ListParserParse(rc)

ParserSpec == ParserInit /\ [][ParserNext]_vars

----------------------------------------------------------------------------
(* Claims about the creator filter, checked under ParserSpec *)

Range(seq) == {seq[i] : i \in 1..Len(seq)}

\* a required creator is a non-blank text; a creator matches it when, case folded,
\* it contains it
MatchesRequiredCreator(creator, required) ==
    /\ required # NoneStr
    /\ Strip(required) # <<>>
    /\ Contains(Lower(creator), Lower(Strip(required)))

(* C1: no entry point returns unfiltered results: whatever the snapshot and *)
(* whatever creator value the caller supplied (none and empty included),   *)
(* every dashboard a parsing entry point returns has an extracted creator  *)
(* that matches the required creator.                                      *)
C1_NoUnfilteredResults ==
    parse.outcome = "returned" =>
        \A d \in Range(parse.dashboards) : MatchesRequiredCreator(d.creator, parse.required)

(* C2: parsing with an empty or whitespace-only required creator fails     *)
(* with a configuration error before any line of the snapshot is scanned,  *)
(* and never returns a result list.                                        *)
C2_BlankCreatorFailsFast ==
    (parse.entry # "none" /\ parse.required # NoneStr /\ Strip(parse.required) = <<>>) =>
        (parse.outcome = "config_error" /\ parse.scanned = 0)

(* C3: the filter retains a parsed unit exactly when its creator matches   *)
(* the required creator case-insensitively: a unit whose creator equals    *)
(* the required creator up to case is retained, and a retained unit's      *)
(* creator contains the required creator up to case.                       *)
C3_FilterIsCaseInsensitive ==
    (parse.outcome = "returned" /\ parse.required # NoneStr) =>
        \A d \in Range(parse.parsed) :
            /\ Lower(d.creator) = Lower(parse.required) => d \in Range(parse.dashboards)
            /\ d \in Range(parse.dashboards) =>
                   Contains(Lower(d.creator), Lower(parse.required))

----------------------------------------------------------------------------
(* The clients' operations.  An operation is split where it awaits or      *)
(* blocks on the child process, so that the peer runs in between.          *)

\* one initialize attempt of connect: the version offered and what came of it
Attempt(version, outcome, resp) == [version |-> version, outcome |-> outcome, resp |-> resp]

Returned(op, id, resp, value, handshake, exhausted, left) ==
    [op |-> op, id |-> id, resp |-> resp, value |-> value,
     handshake |-> handshake, exhausted |-> exhausted, left |-> left]

\* stdin.write(...) of msg on a live child; ready is self.connected at the write
Written(msg, ready) ==
    /\ to_peer' = Append(to_peer, msg)
    /\ sent' = Append(sent, [id |-> msg.id, method |-> msg.method,
                             version |-> msg.version, ready |-> ready])

InitializedNotification == Request(NullId, "notifications/initialized", "no-version")

\* PlaywrightMCPClient._read_message: the next line of stdout; with none there, the
\* timeout (child running) or the end of the stream (child gone), both None
ReadMessage == IF from_peer # <<>> THEN Head(from_peer) ELSE NoResponse

AfterReadMessage == IF from_peer # <<>> THEN Tail(from_peer) ELSE from_peer

\* the id an operation puts in its request: "id": self.request_id
NextRequestId == request_id

\* a counter that is read but not advanced
NotIncrementedRequestId == request_id

\* self.request_id += 1
IncrementedRequestId == request_id + 1

\* PlaywrightMCPClient.connect, up to `await asyncio.sleep(0.5)`
PWConnect ==
    /\ client_class = "playwright" /\ task = Idle /\ request_id <= MaxRequests
    /\ IF connected
       THEN /\ last' = Returned("connect", NullId, NoResponse, "True", FALSE, FALSE, from_peer)
            /\ UNCHANGED <<proc, alive, task, to_peer, from_peer, attempts>>
       ELSE \/ /\ proc' = "Process"
               /\ alive' = TRUE
               /\ to_peer' = <<>>
               /\ from_peer' = <<>>
               /\ attempts' = <<>>
               /\ task' = [op |-> "connect", step |-> "sleep", id |-> NullId, vi |-> 1]
               /\ UNCHANGED last
            \/ \* create_subprocess_exec raises: the except clause returns False
               /\ last' = Returned("connect", NullId, NoResponse, "False", FALSE, FALSE, from_peer)
               /\ UNCHANGED <<proc, alive, task, to_peer, from_peer, attempts>>
    /\ UNCHANGED <<parser_vars, other_vars, client_class, connected, request_id, desync, sent,
                   diag, peer_versions, notes>>

\* PlaywrightMCPClient.connect: init_req, request_id += 1, and _send_request's write
PWSendInitialize ==
    /\ client_class = "playwright" /\ task.op = "connect" /\ task.step = "sleep"
    /\ request_id' = IncrementedRequestId
    /\ IF alive
       THEN /\ Written(Request(NextRequestId, "initialize", PlaywrightVersion), connected)
            /\ task' = [task EXCEPT !.step = "read", !.id = NextRequestId]
            /\ attempts' = <<Attempt(PlaywrightVersion, "pending", NoResponse)>>
            /\ UNCHANGED last
       ELSE \* the write fails: _send_request returns None and connect returns False
            /\ last' = Returned("connect", NextRequestId, NoResponse, "False", TRUE, TRUE, from_peer)
            /\ task' = Idle
            /\ attempts' = <<Attempt(PlaywrightVersion, "no_result", NoResponse)>>
            /\ UNCHANGED <<to_peer, sent>>
    /\ UNCHANGED <<parser_vars, other_vars, client_class, proc, alive, connected, from_peer, desync,
                   diag, peer_versions, notes>>

\* PlaywrightMCPClient.connect from the response on: connected, the notification
PWConnectResponse ==
    /\ client_class = "playwright" /\ task.op = "connect" /\ task.step = "read"
    /\ from_peer' = AfterReadMessage
    /\ task' = Idle
    /\ attempts' = <<Attempt(PlaywrightVersion,
                              IF ReadMessage.kind = "result" THEN "result" ELSE "no_result",
                              ReadMessage)>>
    /\ IF ReadMessage.kind = "result"
       THEN /\ connected' = TRUE
            /\ IF alive
               THEN /\ Written(InitializedNotification, TRUE)
                    /\ last' = Returned("connect", task.id, ReadMessage, "True", TRUE, FALSE, from_peer')
               ELSE \* the notification's write fails: the except clause returns False
                    /\ last' = Returned("connect", task.id, ReadMessage, "False", TRUE, FALSE, from_peer')
                    /\ UNCHANGED <<to_peer, sent>>
       ELSE /\ last' = Returned("connect", task.id, ReadMessage, "False", TRUE, TRUE, from_peer')
            /\ UNCHANGED <<connected, to_peer, sent>>
    /\ UNCHANGED <<parser_vars, other_vars, client_class, proc, alive, request_id, desync,
                   diag, peer_versions, notes>>

\* list_tools / call_tool of both classes up to the write: the request, request_id += 1,
\* and _send_request's write.  op is "list_tools" or "call_tool".
SendCall(op, method, none_value) ==
    /\ task = Idle /\ request_id <= MaxRequests
    /\ request_id' = IncrementedRequestId
    /\ IF proc = "Process" /\ alive
       THEN /\ Written(Request(NextRequestId, method, "no-version"), connected)
            /\ task' = [op |-> op, step |-> "read", id |-> NextRequestId, vi |-> 0]
            /\ UNCHANGED last
       ELSE \* no stream to write to, or the write fails: _send_request returns None
            /\ last' = Returned(op, NextRequestId, NoResponse, none_value, FALSE, FALSE, from_peer)
            /\ UNCHANGED <<task, to_peer, sent>>
    /\ UNCHANGED <<parser_vars, other_vars, client_class, proc, alive, connected, from_peer, desync,
                   attempts, diag, peer_versions, notes>>

\* PlaywrightMCPClient.list_tools
PWListTools == client_class = "playwright" /\ SendCall("list_tools", "tools/list", "[]")

\* PlaywrightMCPClient.call_tool
PWCallTool == client_class = "playwright" /\ SendCall("call_tool", "tools/call", "None")

\* list_tools / call_tool from the response on: the value handed to the caller
CallValue(op, resp) ==
    IF resp.kind = "result" THEN "result" ELSE IF op = "list_tools" THEN "[]" ELSE "None"

\* PlaywrightMCPClient._send_request's read and the rest of list_tools / call_tool
PWCallResponse ==
    /\ client_class = "playwright" /\ task.op \in {"list_tools", "call_tool"}
    /\ task.step = "read"
    /\ from_peer' = AfterReadMessage
    /\ task' = Idle
    /\ last' = Returned(task.op, task.id, ReadMessage, CallValue(task.op, ReadMessage),
                        FALSE, FALSE, from_peer')
    /\ UNCHANGED <<parser_vars, other_vars, client_class, proc, alive, connected, request_id, to_peer,
                   desync, sent, attempts, diag, peer_versions, notes>>

\* how PlaywrightMCPClient.disconnect ends: it returns None, or, the child having
\* exited, terminate() and then kill() raise ProcessLookupError (DisconnectSpec
\* has the steps)
DisconnectOutcomes ==
    IF proc = "Process" /\ ~alive THEN {"None", "ProcessLookupError"} ELSE {"None"}

\* PlaywrightMCPClient.disconnect
PWDisconnect ==
    /\ client_class = "playwright" /\ task = Idle
    /\ IF proc = "Process"
       THEN /\ proc' = "None"
            /\ alive' = FALSE
            /\ connected' = FALSE
            /\ to_peer' = <<>>
            /\ from_peer' = <<>>
       ELSE UNCHANGED <<proc, alive, connected, to_peer, from_peer>>
    /\ \E v \in DisconnectOutcomes :
          last' = Returned("disconnect", NullId, NoResponse, v, FALSE, FALSE, <<>>)
    /\ UNCHANGED <<parser_vars, other_vars, client_class, request_id, task, desync, sent,
                   attempts, diag, peer_versions, notes>>

----------------------------------------------------------------------------
(* WorkingPyMCPClient (working-py-mcp-client.py): Content-Length framing,  *)
(* blocking reads, and the version-negotiating connect                     *)

\* WorkingPyMCPClient._send_request after the write: what the blocking read can
\* give.  A frame that is there is decoded, or the deadline passes inside it (None,
\* and the stream stays out of step: every later read gives None); at the end of
\* the stream the read gives None; with nothing to read and the child running the
\* read blocks (no outcome).
ReadFrameOutcomes ==
    IF desync
    THEN IF from_peer # <<>>
         THEN {[resp |-> NoResponse, rest |-> Tail(from_peer), desync |-> TRUE]}
         ELSE IF ~alive
              THEN {[resp |-> NoResponse, rest |-> <<>>, desync |-> TRUE]}
              ELSE {}
    ELSE IF from_peer # <<>>
         THEN {[resp |-> Head(from_peer), rest |-> Tail(from_peer), desync |-> FALSE],
               [resp |-> NoResponse, rest |-> from_peer, desync |-> TRUE]}
         ELSE IF ~alive
              THEN {[resp |-> NoResponse, rest |-> <<>>, desync |-> FALSE]}
              ELSE {}

\* the for loop of connect after an attempt that gave no result: the next
\* candidate, or past the last one the failure path
AfterFailedAttempt(vi) ==
    IF vi < Len(Versions)
    THEN [op |-> "connect", step |-> "attempt", id |-> NullId, vi |-> vi + 1]
    ELSE [op |-> "connect", step |-> "stderr", id |-> NullId, vi |-> vi]

\* a loop without the break: it goes on to the next version after a result
AfterResultWithoutBreak(vi) == AfterFailedAttempt(vi)

\* `if resp and 'result' in resp: ... break`: the loop ends at the first result
AfterSuccessfulAttempt(vi) == Idle

\* WorkingPyMCPClient.connect up to the loop over versions
WKConnect ==
    /\ client_class = "working" /\ task = Idle /\ request_id <= MaxRequests
    /\ \/ /\ proc' = "Process"
          /\ alive' = TRUE
          /\ to_peer' = <<>>
          /\ from_peer' = <<>>
          /\ desync' = FALSE
          /\ attempts' = <<>>
          /\ task' = [op |-> "connect", step |-> "attempt", id |-> NullId, vi |-> 1]
          /\ UNCHANGED last
       \/ \* Popen raises: the except clause returns False
          /\ last' = Returned("connect", NullId, NoResponse, "False", FALSE, FALSE, from_peer)
          /\ UNCHANGED <<proc, alive, task, to_peer, from_peer, desync, attempts>>
    /\ UNCHANGED <<parser_vars, other_vars, client_class, connected, request_id, sent, diag,
                   peer_versions, notes>>

\* one turn of the loop up to the read: init_req with versions[vi], request_id += 1,
\* and _send_request's write
WKSendInitialize ==
    /\ client_class = "working" /\ task.op = "connect" /\ task.step = "attempt"
    /\ request_id' = IncrementedRequestId
    /\ IF alive
       THEN /\ Written(Request(NextRequestId, "initialize", Versions[task.vi]), FALSE)
            /\ task' = [task EXCEPT !.step = "read", !.id = NextRequestId]
            /\ attempts' = Append(attempts, Attempt(Versions[task.vi], "pending", NoResponse))
       ELSE \* the write fails: _send_request returns None
            /\ task' = AfterFailedAttempt(task.vi)
            /\ attempts' = Append(attempts, Attempt(Versions[task.vi], "no_result", NoResponse))
            /\ UNCHANGED <<to_peer, sent>>
    /\ UNCHANGED <<parser_vars, other_vars, client_class, proc, alive, connected, from_peer, desync,
                   last, diag, peer_versions, notes>>

\* the read of one attempt and `if resp and 'result' in resp`
WKConnectResponse ==
    /\ client_class = "working" /\ task.op = "connect" /\ task.step = "read"
    /\ \E o \in ReadFrameOutcomes :
          /\ from_peer' = o.rest
          /\ desync' = o.desync
          /\ IF o.resp.kind = "result"
             THEN /\ attempts' = [attempts EXCEPT ![Len(attempts)] =
                                     Attempt(Versions[task.vi], "result", o.resp)]
                  /\ task' = AfterSuccessfulAttempt(task.vi)
                  /\ IF task' = Idle
                     THEN last' = Returned("connect", task.id, o.resp, "True", TRUE, FALSE, o.rest)
                     ELSE UNCHANGED last
             ELSE /\ attempts' = [attempts EXCEPT ![Len(attempts)] =
                                     Attempt(Versions[task.vi], "no_result", o.resp)]
                  /\ task' = AfterFailedAttempt(task.vi)
                  /\ UNCHANGED last
    /\ UNCHANGED <<parser_vars, other_vars, client_class, proc, alive, connected, request_id, to_peer,
                   sent, diag, peer_versions, notes>>

\* connect after the loop, no attempt having given a result: stderr.read() returns
\* at the end of the child's stderr; the response and the stderr text are printed
WKConnectFailed ==
    /\ client_class = "working" /\ task.op = "connect" /\ task.step = "stderr"
    /\ ~alive
    /\ diag' = [surfaced |-> TRUE, resp |-> attempts[Len(attempts)].resp, stderr |-> TRUE]
    /\ last' = Returned("connect", NullId, attempts[Len(attempts)].resp, "False", TRUE, TRUE, from_peer)
    /\ task' = Idle
    /\ UNCHANGED <<parser_vars, other_vars, client_class, proc, alive, connected, request_id, to_peer,
                   from_peer, desync, sent, attempts, peer_versions, notes>>

\* WorkingPyMCPClient.list_tools
WKListTools == client_class = "working" /\ SendCall("list_tools", "tools/list", "[]")

\* WorkingPyMCPClient.call_tool
WKCallTool == client_class = "working" /\ SendCall("call_tool", "tools/call", "None")

\* WorkingPyMCPClient._send_request's read and the rest of list_tools / call_tool
WKCallResponse ==
    /\ client_class = "working" /\ task.op \in {"list_tools", "call_tool"}
    /\ task.step = "read"
    /\ \E o \in ReadFrameOutcomes :
          /\ from_peer' = o.rest
          /\ desync' = o.desync
          /\ last' = Returned(task.op, task.id, o.resp, CallValue(task.op, o.resp),
                              FALSE, FALSE, o.rest)
    /\ task' = Idle
    /\ UNCHANGED <<parser_vars, other_vars, client_class, proc, alive, connected, request_id, to_peer,
                   sent, attempts, diag, peer_versions, notes>>

\* WorkingPyMCPClient.disconnect
WKDisconnect ==
    /\ client_class = "working" /\ task = Idle
    /\ IF proc = "Process"
       THEN /\ proc' = "None"
            /\ alive' = FALSE
            /\ to_peer' = <<>>
            /\ from_peer' = <<>>
       ELSE UNCHANGED <<proc, alive, to_peer, from_peer>>
    /\ last' = Returned("disconnect", NullId, NoResponse, "None", FALSE, FALSE, <<>>)
    /\ UNCHANGED <<parser_vars, other_vars, client_class, connected, request_id, task, desync, sent,
                   attempts, diag, peer_versions, notes>>

----------------------------------------------------------------------------
(* The peer: the child process at the other end of the pipes *)

\* the key a response to request m carries: initialize is answered with a result
\* for an accepted version and with an error otherwise
AnswerKinds(m) ==
    IF m.method = "initialize"
    THEN (IF m.version \in peer_versions THEN {"result"} ELSE {"error"})
    ELSE {"result", "error"}

\* the peer takes the next message from its stdin and answers a request
PeerAnswer ==
    /\ proc = "Process" /\ alive /\ to_peer # <<>>
    /\ to_peer' = Tail(to_peer)
    /\ IF Head(to_peer).id = NullId
       THEN UNCHANGED from_peer
       ELSE \E k \in AnswerKinds(Head(to_peer)) :
               from_peer' = Append(from_peer, Response(Head(to_peer).id, k))
    /\ UNCHANGED <<parser_vars, other_vars, client_class, proc, alive, connected, request_id, task,
                   desync, sent, last, attempts, diag, peer_versions, notes, command>>

\* the peer writes a message of its own, with no id
PeerNotify ==
    /\ proc = "Process" /\ alive /\ notes < MaxNotes
    /\ from_peer' = Append(from_peer, Response(NullId, "notification"))
    /\ notes' = notes + 1
    /\ UNCHANGED <<parser_vars, other_vars, client_class, proc, alive, connected, request_id, task,
                   to_peer, desync, sent, last, attempts, diag, peer_versions, command>>

\* the child process exits or crashes
PeerExit ==
    /\ proc = "Process" /\ alive
    /\ alive' = FALSE
    /\ UNCHANGED <<parser_vars, other_vars, client_class, proc, connected, request_id, task, to_peer,
                   from_peer, desync, sent, last, attempts, diag, peer_versions, notes,
                   command>>

----------------------------------------------------------------------------
(* The callers and the client specification *)

PeerVersionSets == {{}, {Versions[1]}, {Versions[2]}, {Versions[5]}}

ClientInit ==
    /\ snapshot = <<>>
    /\ config_creator = NoneStr
    /\ parse = NoParse
    /\ \E k \in {"playwright", "working"} : ClientConstructed(k)
    /\ peer_versions \in PeerVersionSets
    /\ command \in IF client_class = "playwright" THEN {"free", "start"} ELSE {"free"}
    /\ OthersUnused

\* export_command: `await mcp_client.connect()`, its result dropped, then
\* exporter.export_dashboard, whose browser steps are call_tool calls
\* and `return 0` / `except Exception: ... return 1`: the command returns, and no
\* statement of it calls mcp_client.disconnect()
ExportCommand ==
    \/ command = "start" /\ PWConnect /\ command' = "connect"
    \/ command \in {"connect", "export"} /\ PWCallTool /\ command' = "export"
    \/ /\ command \in {"connect", "export"} /\ task = Idle
       /\ command' = "done"
       /\ UNCHANGED <<parser_vars, other_vars, client_class, proc, alive, connected, request_id,
                      task, to_peer, from_peer, desync, sent, last, attempts, diag,
                      peer_versions, notes>>

ClientNext ==
    \/ command = "free" /\ PWConnect /\ UNCHANGED command
    \/ command = "free" /\ PWListTools /\ UNCHANGED command
    \/ command = "free" /\ PWCallTool /\ UNCHANGED command
    \/ command = "free" /\ PWDisconnect /\ UNCHANGED command
    \/ PWSendInitialize /\ UNCHANGED command
    \/ PWConnectResponse /\ UNCHANGED command
    \/ PWCallResponse /\ UNCHANGED command
    \/ ExportCommand
    \/ WKConnect /\ UNCHANGED command
    \/ WKSendInitialize /\ UNCHANGED command
    \/ WKConnectResponse /\ UNCHANGED command
    \/ WKConnectFailed /\ UNCHANGED command
    \/ WKListTools /\ UNCHANGED command
    \/ WKCallTool /\ UNCHANGED command
    \/ WKCallResponse /\ UNCHANGED command
    \/ WKDisconnect /\ UNCHANGED command
    \/ PeerAnswer
    \/ PeerNotify
    \/ PeerExit

ClientSpec == ClientInit /\ [][ClientNext]_vars

----------------------------------------------------------------------------
(* Claims about the clients, checked under ClientSpec *)

CallOps == {"list_tools", "call_tool"}

IsRequest(m) == m.id # NullId

LastSent == sent[Len(sent)]

(* C4: in any sequence of calls on one connection, calls after a timed-out *)
(* call included, the response handed to the caller of the request with    *)
(* id k is a message whose id is k; a message with another id or with no   *)
(* id is never returned as that call's result.                             *)
C4_ResponseIdMatchesRequest ==
    (last.op \in CallOps /\ last.resp # NoResponse) => last.resp.id = last.id

(* C5: when the peer sends messages with a non-matching or null id and     *)
(* then the matching response before the deadline, the call discards the   *)
(* non-matching messages, keeps reading and returns the matching           *)
(* response's result: a call never returns on a non-matching message while *)
(* the matching response is already there to read.                         *)
C5_NonMatchingDiscardedMatchingReturned ==
    ~ /\ last.op \in CallOps
      /\ last.resp # NoResponse
      /\ last.resp.id # last.id
      /\ \E i \in 1..Len(last.left) : last.left[i].id = last.id

(* C6: connect tries the candidate versions in list order, ending with the *)
(* no-version attempt; the first attempt that returns a result wins and no *)
(* later candidate is attempted.                                           *)
C6_FirstResultWinsInListOrder ==
    client_class = "working" =>
        /\ Len(attempts) <= Len(Versions)
        /\ \A i \in 1..Len(attempts) : attempts[i].version = Versions[i]
        /\ \A i \in 1..(Len(attempts) - 1) : attempts[i].outcome = "no_result"
        /\ (task = Idle /\ last.op = "connect" /\ last.handshake) =>
               (last.value = "True" <=> attempts[Len(attempts)].outcome = "result")

\* candidates v1, v2, v3, ... of which the peer accepts only v2: v1 and v2 were
\* attempted, v2 gave the result and connect returned True
C6_Witness ==
    /\ client_class = "working" /\ task = Idle
    /\ peer_versions = {Versions[2]}
    /\ last.op = "connect" /\ last.value = "True"
    /\ Len(attempts) = 2
    /\ attempts[1].outcome = "no_result"
    /\ attempts[2] = Attempt(Versions[2], "result", last.resp)

(* C7: when every candidate version was attempted and none returned a      *)
(* result, connect fails and surfaces the last response together with the  *)
(* captured error-stream output.                                           *)
C7_ExhaustedConnectSurfacesDiagnostics ==
    (last.op = "connect" /\ last.exhausted) =>
        /\ last.value = "False"
        /\ diag.surfaced /\ diag.stderr
        /\ diag.resp = last.resp

(* C8: request ids are assigned monotonically: over any sequence of        *)
(* initialize attempts, tools/list and tools/call operations, failed and   *)
(* timed-out ones included, each request carries an id strictly greater    *)
(* than every id sent before it.                                           *)
C8_RequestIdsStrictlyIncrease ==
    /\ \A i, j \in 1..Len(sent) :
          (i < j /\ IsRequest(sent[i]) /\ IsRequest(sent[j])) => sent[i].id < sent[j].id
    /\ \A i \in 1..Len(sent) : sent[i].id < request_id

\* an initialize, a tools/list and a tools/call were sent, and the last operation
\* got no response
C8_Witness ==
    /\ \A m \in {"initialize", "tools/list", "tools/call"} :
          \E i \in 1..Len(sent) : sent[i].method = m
    /\ last.op \in CallOps /\ last.resp = NoResponse
    /\ LastSent.id = last.id

(* C9: the connection becomes ready only after a successful initialize     *)
(* handshake: connected is true only if an initialize response carrying a  *)
(* result was received on the current process, and tool calls are carried  *)
(* out only on a ready connection.                                         *)
C9_ReadyOnlyAfterHandshake ==
    client_class = "playwright" =>
        /\ connected =>
               (attempts # <<>> /\ attempts[Len(attempts)].outcome = "result")
        /\ \A i \in 1..Len(sent) : sent[i].method = "tools/call" => sent[i].ready

(* C10: after a successful handshake the client writes the one-way         *)
(* initialized notification: once per successful connect, right after the  *)
(* initialize whose result was received, before any tools/list or          *)
(* tools/call request, and not otherwise.                                  *)
C10_InitializedNotificationAfterHandshake ==
    /\ (task = Idle /\ last.op = "connect" /\ last.value = "True" /\ last.handshake) =>
          /\ Len(sent) >= 2
          /\ LastSent = [id |-> NullId, method |-> "notifications/initialized",
                         version |-> "no-version", ready |-> TRUE]
          /\ sent[Len(sent) - 1].method = "initialize"
          /\ sent[Len(sent) - 1].id = last.id
    /\ \A i \in 1..Len(sent) :
          sent[i].method = "notifications/initialized" =>
              (i > 1 /\ sent[i - 1].method = "initialize")

(* C13: a process-level failure during a call (the write fails on a broken *)
(* pipe, the stream is closed, the process has exited) makes the           *)
(* connection permanently unusable: when a call returns on such a failure  *)
(* the connection is no longer ready, and nothing is written to the dead   *)
(* process afterwards.                                                     *)
C13_ProcessFailureMakesConnectionUnusable ==
    [][/\ (/\ last' # last
           /\ last'.op \in CallOps
           /\ last'.resp = NoResponse
           /\ proc = "Process" /\ ~alive) => ~connected'
       /\ (proc = "Process" /\ ~alive /\ proc' = proc) => sent' = sent]_vars

(* C26: a fatal transport condition during a user-level command still      *)
(* leads to a best-effort disconnect before the error surfaces: no export  *)
(* or import command has returned, and no connect has returned False,      *)
(* while the process it spawned is still held and running.                 *)
C26_NoProcessLeftRunning ==
    /\ command = "done" => ~(proc = "Process" /\ alive)
    /\ (task = Idle /\ last.op = "connect" /\ last.value = "False") =>
          ~(proc = "Process" /\ alive)


----------------------------------------------------------------------------
(* disconnect step by step: PlaywrightMCPClient.disconnect,                *)
(* WorkingPyMCPClient.disconnect and MCPClient.shutdown                    *)
(* (test_mcp_client.py), one action per stretch between two waits.         *)
(* child is "none", "running", "stubborn" (running, and deaf to the end of *)
(* its input and to SIGTERM), "exited", or "reaped" (exited, and the event *)
(* loop has seen it: terminate() and kill() of an asyncio process then     *)
(* raise ProcessLookupError).                                              *)

Running == {"running", "stubborn"}

\* the variables no disconnect step touches
lifecycle_unchanged ==
    <<parser_vars, task_vars, codec_vars, tool_vars, browser_vars, server_vars, client_class, request_id, task, to_peer, from_peer, desync, sent, last,
      attempts, diag, peer_versions, notes, command>>

\* no disconnect call is in progress
DisCallable == dis.pc \in {"idle", "returned"}

\* a disconnect call is over: raised says how, the call is counted
DisReturned(log, raised) ==
    [pc |-> "returned", log |-> log, raised |-> raised, calls |-> dis.calls + 1]

DisAt(pc, log) == [pc |-> pc, log |-> log, raised |-> FALSE, calls |-> dis.calls]

\* a finally clause that clears the process handle and nothing else
PWDisconnectClearsProcOnly ==
    /\ proc' = "None"
    /\ UNCHANGED <<stdin, connected>>

\* the finally clause of PlaywrightMCPClient.disconnect
PWDisconnectFinally ==
    /\ proc' = "None"
    /\ stdin' = "None"
    /\ connected' = FALSE

\* PlaywrightMCPClient.disconnect up to `await self.stdin.wait_closed()`
PWDisconnectClose ==
    /\ client_class = "playwright" /\ DisCallable /\ dis.calls < MaxDisconnects
    /\ IF proc = "None"
       THEN /\ dis' = DisReturned(<<>>, FALSE)
            /\ UNCHANGED <<proc, stdin, connected>>
       ELSE /\ stdin' = "closed"
            /\ dis' = DisAt("wait_closed", <<"close_stdin">>)
            /\ UNCHANGED <<proc, connected>>
    /\ UNCHANGED <<child, alive, lifecycle_unchanged>>

\* self.proc.terminate() up to `await asyncio.wait_for(self.proc.wait(), ...)`; on
\* a reaped child terminate() raises, the bare except calls self.proc.kill(), which
\* raises again, and the exception leaves disconnect through the finally clause
PWDisconnectTerminate ==
    /\ client_class = "playwright" /\ dis.pc = "wait_closed"
    /\ IF child = "reaped"
       THEN /\ dis' = DisReturned(dis.log, TRUE)
            /\ PWDisconnectFinally
       ELSE /\ dis' = DisAt("wait", Append(dis.log, "terminate"))
            /\ UNCHANGED <<proc, stdin, connected>>
    /\ UNCHANGED <<child, alive, lifecycle_unchanged>>

\* the wait is over: the child has exited, or the timeout expires and the except
\* clause kills it; then the finally clause
PWDisconnectWaited ==
    /\ client_class = "playwright" /\ dis.pc = "wait"
    /\ IF child \in Running
       THEN /\ child' = "exited"
            /\ alive' = FALSE
            /\ dis' = DisReturned(dis.log \o <<"wait_timeout", "kill">>, FALSE)
       ELSE /\ dis' = DisReturned(Append(dis.log, "wait_exited"), FALSE)
            /\ UNCHANGED <<child, alive>>
    /\ PWDisconnectFinally
    /\ UNCHANGED lifecycle_unchanged

\* MCPClient.shutdown up to `await self.stdin.wait_closed()`; self.stdin and
\* self.proc are never reset
MCShutdownClose ==
    /\ client_class = "mcpclient" /\ DisCallable /\ dis.calls < MaxDisconnects
    /\ IF stdin = "None"
       THEN /\ dis' = DisReturned(<<>>, FALSE)
            /\ UNCHANGED stdin
       ELSE /\ stdin' = "closed"
            /\ dis' = DisAt("wait_closed", <<"close_stdin">>)
    /\ UNCHANGED <<proc, connected, child, alive, lifecycle_unchanged>>

\* self.proc.terminate() up to the wait; only asyncio.TimeoutError is caught, so
\* the ProcessLookupError of a reaped child leaves shutdown
MCShutdownTerminate ==
    /\ client_class = "mcpclient" /\ dis.pc = "wait_closed"
    /\ IF child = "reaped"
       THEN dis' = DisReturned(dis.log, TRUE)
       ELSE dis' = DisAt("wait", Append(dis.log, "terminate"))
    /\ UNCHANGED <<proc, stdin, connected, child, alive, lifecycle_unchanged>>

\* the wait is over; on the timeout self.proc.kill() and `await self.proc.wait()`
MCShutdownWaited ==
    /\ client_class = "mcpclient" /\ dis.pc = "wait"
    /\ IF child \in Running
       THEN /\ child' = "exited"
            /\ alive' = FALSE
            /\ dis' = DisReturned(dis.log \o <<"wait_timeout", "kill">>, FALSE)
       ELSE /\ dis' = DisReturned(Append(dis.log, "wait_exited"), FALSE)
            /\ UNCHANGED <<child, alive>>
    /\ UNCHANGED <<proc, stdin, connected, lifecycle_unchanged>>

\* WorkingPyMCPClient.disconnect up to `self.proc.wait(timeout=2)`; terminate() of
\* a subprocess.Popen does not raise on a child that has exited
WKDisconnectTerminate ==
    /\ client_class = "working" /\ DisCallable /\ dis.calls < MaxDisconnects
    /\ IF proc = "None"
       THEN dis' = DisReturned(<<>>, FALSE)
       ELSE dis' = DisAt("wait", <<"terminate">>)
    /\ UNCHANGED <<proc, stdin, connected, child, alive, lifecycle_unchanged>>

\* the wait is over; TimeoutExpired is swallowed by `except Exception: pass`, and
\* self.proc = None
WKDisconnectWaited ==
    /\ client_class = "working" /\ dis.pc = "wait"
    /\ dis' = DisReturned(Append(dis.log, IF child \in Running THEN "wait_timeout"
                                                                ELSE "wait_exited"),
                          FALSE)
    /\ proc' = "None"
    /\ UNCHANGED <<stdin, connected, child, alive, lifecycle_unchanged>>

\* the child exits: on its own, at the end of its input, or on SIGTERM
ChildExits ==
    /\ child = "running"
    /\ child' = "exited"
    /\ alive' = FALSE
    /\ UNCHANGED <<proc, stdin, connected, dis, lifecycle_unchanged>>

\* the event loop sees the exit of a child of asyncio.create_subprocess_exec
LoopReaps ==
    /\ client_class # "working" /\ child = "exited"
    /\ child' = "reaped"
    /\ UNCHANGED <<proc, stdin, connected, alive, dis, lifecycle_unchanged>>

\* the child is started and the pipes are kept: connect (PlaywrightMCPClient, only
\* when not connected, with a handshake that succeeds or one that fails and leaves
\* connected False; WorkingPyMCPClient), or MCPClient.start_server
StartChild ==
    /\ DisCallable /\ dis.calls < MaxDisconnects
    /\ client_class = "playwright" => ~connected
    /\ proc' = "Process"
    /\ stdin' = "open"
    /\ child' \in Running
    /\ alive' = TRUE
    /\ connected' \in (IF client_class = "playwright" THEN BOOLEAN ELSE {FALSE})
    /\ dis' = [DisIdle EXCEPT !.calls = dis.calls]
    /\ UNCHANGED lifecycle_unchanged

\* a client never connected, or one with its child started and the pipes open
DisconnectInit ==
    /\ snapshot = <<>>
    /\ config_creator = NoneStr
    /\ parse = NoParse
    /\ client_class \in {"playwright", "working", "mcpclient"}
    /\ child \in {"none"} \cup Running
    /\ alive = (child \in Running)
    /\ proc = IF child = "none" THEN "None" ELSE "Process"
    /\ stdin = IF child = "none" THEN "None" ELSE "open"
    /\ connected = (client_class = "playwright" /\ child # "none")
    /\ dis = DisIdle
    /\ request_id = 1
    /\ task = Idle
    /\ to_peer = <<>>
    /\ from_peer = <<>>
    /\ desync = FALSE
    /\ sent = <<>>
    /\ last = NothingReturned
    /\ attempts = <<>>
    /\ diag = NoDiag
    /\ notes = 0
    /\ peer_versions = {}
    /\ command = "free"
    /\ TasksUnused /\ CodecUnused /\ ToolUnused /\ BrowserConstructed /\ ServerUnused

DisconnectNext ==
    \/ PWDisconnectClose
    \/ PWDisconnectTerminate
    \/ PWDisconnectWaited
    \/ MCShutdownClose
    \/ MCShutdownTerminate
    \/ MCShutdownWaited
    \/ WKDisconnectTerminate
    \/ WKDisconnectWaited
    \/ StartChild
    \/ ChildExits
    \/ LoopReaps

DisconnectSpec == DisconnectInit /\ [][DisconnectNext]_vars

(* C11: disconnect is idempotent and never raises: called any number of    *)
(* times, on a client never connected, connected, already disconnected, or *)
(* whose child has exited on its own, it completes without raising and     *)
(* leaves the connection disconnected.                                     *)
C11_DisconnectNeverRaises ==
    dis.pc = "returned" =>
        /\ ~dis.raised
        /\ ~connected
        /\ proc = "None" \/ ~alive

(* C37: in every state of a PlaywrightMCPClient, connected implies that    *)
(* the process handle and the stream handles are set; and once disconnect  *)
(* is over, by the graceful path, the kill or an exception, the process    *)
(* handle and the stream handles are cleared and connected is false.       *)
C37_ConnectedImpliesHandles ==
    client_class = "playwright" =>
        /\ connected => (proc = "Process" /\ stdin # "None")
        /\ dis.pc = "returned" => (proc = "None" /\ stdin = "None" /\ ~connected)

\* a disconnect of a connected client that ended with an exception
C37_Witness ==
    /\ client_class = "playwright" /\ dis.pc = "returned" /\ dis.raised
    /\ dis.log # <<>>
    /\ proc = "None" /\ stdin = "None" /\ ~connected

(* C12: disconnect closes the write side first, then requests graceful     *)
(* termination, then waits up to a short bound, and force-kills exactly    *)
(* when the process is still alive as the bound expires; a process that    *)
(* exits within the bound is never killed.                                 *)
C12_DisconnectStepsInOrder ==
    /\ \/ \E n \in 0..3 :
             dis.log = SubSeq(<<"close_stdin", "terminate", "wait_exited">>, 1, n)
       \/ \E n \in 0..4 :
             dis.log = SubSeq(<<"close_stdin", "terminate", "wait_timeout", "kill">>, 1, n)
    /\ (dis.pc = "returned" /\ ~dis.raised /\ dis.log # <<>>) =>
          dis.log[Len(dis.log)] \in {"wait_exited", "kill"}

----------------------------------------------------------------------------
(* Two asyncio tasks calling list_tools / call_tool on one                 *)
(* PlaywrightMCPClient.  A task runs until it awaits; the only await that  *)
(* suspends is the readline in _read_message, and a StreamReader lets one  *)
(* coroutine wait for data: a second readline raises RuntimeError, which   *)
(* _read_message turns into None.                                          *)

task_unchanged ==
    <<parser_vars, lifecycle_vars, codec_vars, tool_vars, browser_vars, server_vars, client_class, proc, alive, connected, task, desync, last,
      attempts, diag, peer_versions, notes, command>>

TaskDone(id, resp) == [pc |-> "done", id |-> id, resp |-> resp]

\* list_tools / call_tool of task t up to the point where _read_message suspends or
\* returns: the request, request_id += 1, the write, and the readline on what the
\* stream holds
TaskCall(t, method) ==
    /\ tasks[t].pc \in {"idle", "done"} /\ request_id <= MaxRequests
    /\ request_id' = IncrementedRequestId
    /\ IF ~alive
       THEN \* the write fails
            /\ tasks' = [tasks EXCEPT ![t] = TaskDone(NextRequestId, NoResponse)]
            /\ UNCHANGED <<to_peer, sent, from_peer, waiter>>
       ELSE /\ Written(Request(NextRequestId, method, "no-version"), connected)
            /\ IF from_peer # <<>>
               THEN \* a line is there already: readline returns it
                    /\ tasks' = [tasks EXCEPT ![t] = TaskDone(NextRequestId, Head(from_peer))]
                    /\ from_peer' = Tail(from_peer)
                    /\ UNCHANGED waiter
               ELSE IF waiter = 0
               THEN /\ tasks' = [tasks EXCEPT ![t] =
                                    [pc |-> "read", id |-> NextRequestId, resp |-> NoResponse]]
                    /\ waiter' = t
                    /\ UNCHANGED from_peer
               ELSE \* another coroutine is waiting: RuntimeError, None
                    /\ tasks' = [tasks EXCEPT ![t] = TaskDone(NextRequestId, NoResponse)]
                    /\ UNCHANGED <<from_peer, waiter>>
    /\ UNCHANGED task_unchanged

\* the suspended readline of task t resumes with a line, or with the timeout or the
\* end of the stream (None)
TaskResume(t) ==
    /\ tasks[t].pc = "read" /\ waiter = t
    /\ tasks' = [tasks EXCEPT ![t] = TaskDone(tasks[t].id, ReadMessage)]
    /\ from_peer' = AfterReadMessage
    /\ waiter' = 0
    /\ UNCHANGED <<request_id, to_peer, sent, task_unchanged>>

\* a PlaywrightMCPClient after a successful connect, and its tasks
TaskInit ==
    /\ snapshot = <<>>
    /\ config_creator = NoneStr
    /\ parse = NoParse
    /\ client_class = "playwright"
    /\ proc = "Process"
    /\ alive = TRUE
    /\ connected = TRUE
    /\ request_id = 2
    /\ task = Idle
    /\ to_peer = <<>>
    /\ from_peer = <<>>
    /\ desync = FALSE
    /\ sent = <<[id |-> 1, method |-> "initialize", version |-> PlaywrightVersion,
                 ready |-> FALSE],
                [id |-> NullId, method |-> "notifications/initialized",
                 version |-> "no-version", ready |-> TRUE]>>
    /\ last = Returned("connect", 1, Response(1, "result"), "True", TRUE, FALSE, <<>>)
    /\ attempts = <<Attempt(PlaywrightVersion, "result", Response(1, "result"))>>
    /\ diag = NoDiag
    /\ notes = 0
    /\ peer_versions = {PlaywrightVersion}
    /\ command = "free"
    /\ LifecycleUnused
    /\ TasksUnused /\ CodecUnused /\ ToolUnused /\ BrowserConstructed /\ ServerUnused

TaskNext ==
    \/ \E t \in TaskIds : TaskCall(t, "tools/list")
    \/ \E t \in TaskIds : TaskCall(t, "tools/call")
    \/ \E t \in TaskIds : TaskResume(t)
    \/ PeerAnswer
    \/ PeerNotify
    \/ PeerExit

TaskSpec == TaskInit /\ [][TaskNext]_vars

(* C14: one outstanding call per connection: under any interleaving of two *)
(* tasks calling call_tool / list_tools on the same client, no request is  *)
(* written while another task still awaits its response, and each task's   *)
(* read receives the response to its own request.                          *)
C14_OneOutstandingCall ==
    \A t \in TaskIds :
        /\ tasks[t].pc = "read" => sent[Len(sent)].id = tasks[t].id
        /\ (tasks[t].pc = "done" /\ tasks[t].resp # NoResponse) =>
               tasks[t].resp.id = tasks[t].id

----------------------------------------------------------------------------
(* Framing.  A text on the wire is a sequence of characters; Block stands  *)
(* for a run of BlockLen letters inside a JSON string, so that a line      *)
(* longer than the StreamReader limit can be written down.  A Message is   *)
(* the content of a JSON object, a sequence over MsgChars; json.dumps      *)
(* escapes the newline and the backslash, json.loads undoes it and refuses *)
(* what is no JSON.                                                        *)

NL == "\n"

CR == "\r"

BS == "\\"

Block == "aaa..."

\* the default limit of asyncio.StreamReader (2 ** 16), which
\* create_subprocess_exec is left with
ReadlineLimit == 65536

BlockLen == ReadlineLimit

\* len() of a text
RECURSIVE TextLen(_)
TextLen(s) ==
    IF s = <<>> THEN 0
    ELSE (IF Head(s) = Block THEN BlockLen ELSE 1) + TextLen(Tail(s))

\* json.dumps of the content of a message: the escapes
RECURSIVE Escape(_)
Escape(m) ==
    IF m = <<>> THEN <<>>
    ELSE (CASE Head(m) = NL -> <<BS, "n">>
            [] Head(m) = BS -> <<BS, BS>>
            [] OTHER -> <<Head(m)>>) \o Escape(Tail(m))

\* json.dumps(payload)
Dumps(m) == <<"{">> \o Escape(m) \o <<"}">>

\* the content of a JSON text between the braces, unescaped: <<content>>, or <<>>
\* where json.loads raises (a raw control character, a brace, a bad escape)
RECURSIVE Unescape(_)
Unescape(s) ==
    IF s = <<>> THEN <<(<<>>)>>
    ELSE IF Head(s) \in {NL, CR, "{", "}"} THEN <<>>
    ELSE IF Head(s) = BS
         THEN IF Len(s) >= 2 /\ s[2] \in {"n", BS} /\ Unescape(Tail(Tail(s))) # <<>>
              THEN <<(<<(IF s[2] = "n" THEN NL ELSE BS)>> \o Unescape(Tail(Tail(s)))[1])>>
              ELSE <<>>
         ELSE IF Unescape(Tail(s)) # <<>>
              THEN <<(<<Head(s)>> \o Unescape(Tail(s))[1])>>
              ELSE <<>>

\* the whitespace json.loads and str.strip() skip around a text
RECURSIVE StripWs(_)
StripWs(s) ==
    IF s # <<>> /\ Head(s) \in {" ", NL, CR} THEN StripWs(Tail(s))
    ELSE IF s # <<>> /\ s[Len(s)] \in {" ", NL, CR} THEN StripWs(SubSeq(s, 1, Len(s) - 1))
    ELSE s

\* json.loads(text): <<message>>, or <<>> for JSONDecodeError
Loads(text) ==
    LET t == StripWs(text)
    IN  IF Len(t) >= 2 /\ t[1] = "{" /\ t[Len(t)] = "}"
        THEN Unescape(SubSeq(t, 2, Len(t) - 1))
        ELSE <<>>

\* what a decoder hands back: kind is "message", "none" (None returned), "raised"
\* or "blocked" (the read never returns); report is what the failure was put down
\* to; declared and got are the Content-Length and the body length read
Decoded(kind, value, rest, report, declared, got) ==
    [kind |-> kind, value |-> value, rest |-> rest, report |-> report,
     declared |-> declared, got |-> got]

\* the first index of character c in s, 0 for none
RECURSIVE IndexOf(_, _)
IndexOf(s, c) ==
    IF s = <<>> THEN 0
    ELSE IF Head(s) = c THEN 1
    ELSE LET rest == IndexOf(Tail(s), c) IN IF rest = 0 THEN 0 ELSE 1 + rest

Drop(s, n) == SubSeq(s, n + 1, Len(s))

\* how many leading characters of s make up at most n in len()
RECURSIVE TakeCount(_, _)
TakeCount(s, n) ==
    IF s = <<>> \/ TextLen(<<Head(s)>>) > n THEN 0
    ELSE 1 + TakeCount(Tail(s), n - TextLen(<<Head(s)>>))

\* `message = json.dumps(payload) + '\n'`
EncodeLine(m) == Dumps(m) \o <<NL>>

\* PlaywrightMCPClient._read_message on a stream holding chars, at its end (eof) or
\* silent from there on: readline gives the line up to the newline, raises
\* ValueError for a line over the limit (the line is dropped), gives what is left
\* at the end of the stream; the timeout and every exception become None
DecodeLine(chars, eof) ==
    LET i == IndexOf(chars, NL)
        line == IF i > 0 THEN SubSeq(chars, 1, i) ELSE chars
        rest == IF i > 0 THEN Drop(chars, i) ELSE <<>>
        val == Loads(line)
    IN  IF i = 0 /\ ~eof
        THEN Decoded("none", <<>>, chars, "timeout", 0, 0)
        ELSE IF line = <<>>
        THEN Decoded("none", <<>>, <<>>, "eof", 0, 0)
        ELSE IF TextLen(line) - 1 > ReadlineLimit
        THEN Decoded("none", <<>>, rest, "limit", 0, 0)
        ELSE IF val = <<>>
        THEN Decoded("none", <<>>, rest, "json", 0, 0)
        ELSE Decoded("message", val[1], rest, "ok", 0, 0)

\* the header name with its colon, one character of the wire for the model
HDR == "Content-Length:"

CRLF == <<CR, NL>>

DigitChars == <<"0", "1", "2", "3", "4", "5", "6", "7", "8", "9">>

\* str(n), n >= 0
RECURSIVE Decimal(_)
Decimal(n) ==
    IF n < 10 THEN <<DigitChars[n + 1]>>
    ELSE Decimal(n \div 10) \o <<DigitChars[(n % 10) + 1]>>

\* int(v) of a stripped text: the number, or -1 for ValueError
RECURSIVE ParseInt(_)
ParseInt(v) ==
    IF v = <<>> THEN -1
    ELSE LET d == CHOOSE k \in 0..10 : k = 10 \/ DigitChars[k + 1] = v[Len(v)]
         IN  IF d = 10 THEN -1
             ELSE IF Len(v) = 1 THEN d
             ELSE IF ParseInt(SubSeq(v, 1, Len(v) - 1)) = -1 THEN -1
             ELSE 10 * ParseInt(SubSeq(v, 1, Len(v) - 1)) + d

\* f"Content-Length: {len(body_json.encode('utf-8'))}\r\n\r\n{body_json}"; json.dumps
\* gives ASCII, one byte a character
EncodeFrame(m) ==
    <<HDR, " ">> \o Decimal(TextLen(Dumps(m))) \o CRLF \o CRLF \o Dumps(m)

\* the index at which the first "\r\n\r\n" of s ends, 0 for none
RECURSIVE HeaderEnd(_)
HeaderEnd(s) ==
    IF Len(s) < 4 THEN 0
    ELSE IF SubSeq(s, 1, 4) = CRLF \o CRLF THEN 4
    ELSE IF HeaderEnd(Tail(s)) = 0 THEN 0 ELSE 1 + HeaderEnd(Tail(s))

\* the header lines of a header text: split on "\r\n"
RECURSIVE HeaderLines(_)
HeaderLines(h) ==
    LET i == IndexOf(h, CR)
    IN  IF i > 0 /\ i < Len(h) /\ h[i + 1] = NL
        THEN <<SubSeq(h, 1, i - 1)>> \o HeaderLines(Drop(h, i + 1))
        ELSE <<h>>

\* headers.get('content-length', '0') after `headers[k.strip().lower()] = v.strip()`
\* over the lines: the value of the last line whose key is the header name
RECURSIVE ContentLengthValue(_)
ContentLengthValue(lines) ==
    IF lines = <<>> THEN <<"0">>
    ELSE LET line == StripWs(lines[Len(lines)])
         IN  IF line # <<>> /\ Head(line) = HDR
             THEN StripWs(Tail(line))
             ELSE ContentLengthValue(SubSeq(lines, 1, Len(lines) - 1))

\* the body part of WorkingPyMCPClient._send_request: `while len(body) < length and
\* time.time() < deadline`, read(length - len(body)) returning that many characters
\* or, at the end of the stream, fewer; then the length test and json.loads
DecodeWorkingBody(chars, eof, in_time, length) ==
    LET k == TakeCount(chars, length)
        body == SubSeq(chars, 1, k)
        val == Loads(body)
    IN  IF length > 0 /\ ~in_time
        THEN Decoded("none", <<>>, chars, "framing", length, 0)
        ELSE IF TextLen(body) < length
        THEN IF eof
             THEN Decoded("none", <<>>, <<>>, "framing", length, TextLen(body))
             ELSE Decoded("blocked", <<>>, <<>>, "blocked", length, TextLen(body))
        ELSE IF val = <<>>
        THEN Decoded("none", <<>>, Drop(chars, k), "json", length, TextLen(body))
        ELSE Decoded("message", val[1], Drop(chars, k), "ok", length, TextLen(body))

\* WorkingPyMCPClient._send_request after the write, on a stream holding chars, at
\* its end (eof) or silent from there on; budget is the number of read calls made
\* before time.time() reaches the deadline.  The header is read one character a
\* read; a read on a silent stream does not return.
DecodeWorking(chars, eof, budget) ==
    LET h == HeaderEnd(chars)
        length == ParseInt(ContentLengthValue(HeaderLines(SubSeq(chars, 1, h - 4))))
    IN  IF h = 0 \/ budget < h
        THEN IF budget <= Len(chars)
             THEN Decoded("none", <<>>, Drop(chars, budget), "framing", 0, 0)
             ELSE IF eof
             THEN Decoded("none", <<>>, <<>>, "eof", 0, 0)
             ELSE Decoded("blocked", <<>>, <<>>, "blocked", 0, 0)
        ELSE IF length = -1
        THEN Decoded("none", <<>>, Drop(chars, h), "framing", 0, 0)
        ELSE DecodeWorkingBody(Drop(chars, h), eof, budget > h, length)

\* the header part of SimplePyMCPClient._send_cl_request: readline() until a blank
\* line; gives <<lines, rest>>, <<"eof">> when the stream ends first, <<"blocked">>
\* when it falls silent first
RECURSIVE ReadHeaderLines(_, _, _)
ReadHeaderLines(chars, eof, lines) ==
    LET i == IndexOf(chars, NL)
        raw == IF i > 0 THEN SubSeq(chars, 1, i) ELSE chars
        line == IF raw # <<>> /\ raw[Len(raw)] = NL
                THEN (IF Len(raw) >= 2 /\ raw[Len(raw) - 1] = CR
                      THEN SubSeq(raw, 1, Len(raw) - 2)
                      ELSE SubSeq(raw, 1, Len(raw) - 1))
                ELSE raw
    IN  IF i = 0 /\ ~eof THEN <<"blocked">>
        ELSE IF raw = <<>> THEN <<"eof">>
        ELSE IF line = <<>> THEN <<lines, Drop(chars, Len(raw))>>
        ELSE ReadHeaderLines(Drop(chars, Len(raw)), eof, Append(lines, line))

\* SimplePyMCPClient._send_cl_request after the write: no deadline; int() may
\* raise; `body = stdout.read(length)` gives that many characters or, at the end of
\* the stream, what there is
DecodeSimple(chars, eof) ==
    LET hl == ReadHeaderLines(chars, eof, <<>>)
        length == ParseInt(ContentLengthValue(hl[1]))
        k == TakeCount(hl[2], length)
        body == SubSeq(hl[2], 1, k)
        val == Loads(body)
    IN  IF hl = <<"blocked">> THEN Decoded("blocked", <<>>, <<>>, "blocked", 0, 0)
        ELSE IF hl = <<"eof">> THEN Decoded("none", <<>>, <<>>, "eof", 0, 0)
        ELSE IF length = -1 THEN Decoded("raised", <<>>, hl[2], "framing", 0, 0)
        ELSE IF length = 0 THEN Decoded("none", <<>>, hl[2], "framing", 0, 0)
        ELSE IF TextLen(body) < length /\ ~eof
        THEN Decoded("blocked", <<>>, <<>>, "blocked", length, TextLen(body))
        ELSE IF val = <<>>
        THEN Decoded("none", <<>>, Drop(hl[2], k), "json", length, TextLen(body))
        ELSE Decoded("message", val[1], Drop(hl[2], k), "ok", length, TextLen(body))

(* C18: every read of a call is bounded by a deadline, so a call that      *)
(* awaits its response always terminates, with a result or with a          *)
(* timeout, and never blocks forever: whenever list_tools or call_tool is  *)
(* in its read, the read can return without the peer doing anything.       *)
C18_ReadReturnsByDeadline ==
    (task.op \in CallOps /\ task.step = "read") =>
        ENABLED (PWCallResponse \/ WKCallResponse)

----------------------------------------------------------------------------
(* The decoders on streams: an encoded message, or the frame of a sender   *)
(* that miscounts, followed by nothing or by the next frame; the stream    *)
(* ends there (eof) or stays open and silent.                              *)

MsgChars == {"a", NL, BS}

RECURSIVE SeqsUpTo(_, _)
SeqsUpTo(S, n) ==
    IF n = 0 THEN {<<>>}
    ELSE SeqsUpTo(S, n - 1) \cup
         {Append(q, c) : q \in {r \in SeqsUpTo(S, n - 1) : Len(r) = n - 1}, c \in S}

\* valid messages: short ones over MsgChars, and one whose text is over the limit
Messages == SeqsUpTo(MsgChars, MaxMsgLen) \cup {<<Block>>}

\* bodies a miscounting sender puts after its header
Bodies == {Dumps(<<>>), Dumps(<<"a">>), Dumps(<<>>) \o <<" ">>, <<"{", "a">>}

\* a stream as the model writes it down, with what went into it
Wire(framing, chars, eof, budget, msg, declared, body, follow) ==
    [framing |-> framing, chars |-> chars, eof |-> eof, budget |-> budget, msg |-> msg,
     declared |-> declared, body |-> body, follow |-> follow]

LineWires ==
    {Wire("line", EncodeLine(m) \o f, e, AmpleDeadline, m, 0, Dumps(m), f) :
        m \in Messages, f \in {<<>>, EncodeLine(<<>>)}, e \in BOOLEAN}

FrameWires ==
    {Wire("frame", EncodeFrame(m) \o f, e, b, m, TextLen(Dumps(m)), Dumps(m), f) :
        m \in Messages, f \in {<<>>, EncodeFrame(<<>>)}, e \in BOOLEAN,
        b \in {TightDeadline, AmpleDeadline}}

MiscountedWires ==
    {w \in {Wire("miscounted", <<HDR, " ">> \o Decimal(n) \o CRLF \o CRLF \o body \o f, e,
                 AmpleDeadline, <<>>, n, body, f) :
               n \in 0..MaxDeclared, body \in Bodies,
               f \in {<<>>, EncodeFrame(<<>>)}, e \in BOOLEAN} :
        w.declared # TextLen(w.body)}

codec_unchanged ==
    <<parser_vars, client_vars, lifecycle_vars, task_vars, tool_vars, browser_vars,
      server_vars, wire>>

\* PlaywrightMCPClient._read_message on a newline-delimited stream
ReadMessageOnWire ==
    /\ dec = NotDecoded /\ wire.framing = "line"
    /\ dec' = [by |-> "playwright", out |-> DecodeLine(wire.chars, wire.eof)]
    /\ UNCHANGED codec_unchanged

\* the read of WorkingPyMCPClient._send_request on a Content-Length stream
WorkingReadOnWire ==
    /\ dec = NotDecoded /\ wire.framing \in {"frame", "miscounted"}
    /\ dec' = [by |-> "working", out |-> DecodeWorking(wire.chars, wire.eof, wire.budget)]
    /\ UNCHANGED codec_unchanged

\* the read of SimplePyMCPClient._send_cl_request on a Content-Length stream
SimpleReadOnWire ==
    /\ dec = NotDecoded /\ wire.framing \in {"frame", "miscounted"}
    /\ dec' = [by |-> "simple", out |-> DecodeSimple(wire.chars, wire.eof)]
    /\ UNCHANGED codec_unchanged

CodecInit ==
    /\ snapshot = <<>>
    /\ config_creator = NoneStr
    /\ parse = NoParse
    /\ ClientConstructed("playwright")
    /\ peer_versions = {}
    /\ command = "free"
    /\ LifecycleUnused /\ TasksUnused /\ ToolUnused /\ BrowserConstructed /\ ServerUnused
    /\ wire \in LineWires \cup FrameWires \cup MiscountedWires
    /\ dec = NotDecoded

CodecNext ==
    \/ ReadMessageOnWire
    \/ WorkingReadOnWire
    \/ SimpleReadOnWire

CodecSpec == CodecInit /\ [][CodecNext]_vars

(* C15: length-prefixed decode returns a Message only after it has         *)
(* accumulated exactly the declared Content-Length of body; when the       *)
(* stream ends or the deadline passes first, the outcome is an end of      *)
(* stream or a timeout, never a parsed partial Message.                    *)
C15_NoMessageFromTruncatedBody ==
    dec.by \in {"working", "simple"} =>
        /\ dec.out.kind = "message" => dec.out.got = dec.out.declared
        /\ (wire.follow = <<>> /\ TextLen(wire.body) < wire.declared) =>
               dec.out.kind # "message"

(* C16: for every valid Message M and for both framings, decoding what     *)
(* encoding M gave yields M again, and the decoder consumes exactly the    *)
(* one frame.                                                              *)
C16_DecodeOfEncodeIsIdentity ==
    (dec.by # "none" /\ wire.framing \in {"line", "frame"}
     /\ wire.budget = AmpleDeadline) =>
        /\ dec.out.kind = "message"
        /\ dec.out.value = wire.msg
        /\ dec.out.rest = wire.follow

(* C17: length-prefixed decode rejects every frame whose declared          *)
(* Content-Length is larger or smaller than the body that follows: the     *)
(* mismatch is reported as a framing failure and no Message is returned    *)
(* for the frame.                                                          *)
C17_LengthMismatchRejected ==
    (dec.by \in {"working", "simple"} /\ wire.declared # TextLen(wire.body)) =>
        /\ dec.out.kind # "message"
        /\ dec.out.kind \in {"none", "raised"} => dec.out.report \in {"framing", "eof"}

----------------------------------------------------------------------------
(* call_tool from the response on, in the three clients: what the caller   *)
(* is handed for each response to tools/call.                              *)

\* the value of content[0].get('text', '') for an item without a text
NoText == <<"<no text>">>

\* texts of a content item: JSON documents, and texts that are not JSON
Texts == {Dumps(m) : m \in SeqsUpTo(MsgChars, MaxMsgLen)} \cup {<<>>, <<"a">>, <<"{", "a">>}

ContentItems ==
    {[type |-> "text", text |-> t] : t \in Texts} \cup {[type |-> "image", text |-> NoText]}

\* result objects: without content, with an empty list, with one item or two
ToolResults ==
    {[has_content |-> FALSE, content |-> <<>>], [has_content |-> TRUE, content |-> <<>>]}
    \cup {[has_content |-> TRUE, content |-> <<i>>] : i \in ContentItems}
    \cup {[has_content |-> TRUE, content |-> <<i, [type |-> "text", text |-> <<"a">>]>>] :
             i \in ContentItems}

ErrorCodes == {-32601, -32000}

\* what _send_request hands to call_tool: None after a timeout or at the end of
\* the stream, an error response, or a result response
ToolResponse(kind, code, message, result) ==
    [kind |-> kind, code |-> code, message |-> message, result |-> result]

ToolResponses ==
    {ToolResponse(k, 0, "", <<>>) : k \in {"timeout", "eof"}}
    \cup {ToolResponse("error", c, msg, <<>>) : c \in ErrorCodes, msg \in {"Tool not found", ""}}
    \cup {ToolResponse("result", 0, "", <<r>>) : r \in ToolResults}

\* the values call_tool returns: None, a parsed document, a dictionary with one
\* key holding the text, the result object; and an error handed on as it came
ToolValue(kind, key, text, result, code, message) ==
    [kind |-> kind, key |-> key, text |-> text, result |-> result, code |-> code,
     message |-> message]

NoneValue == ToolValue("None", "", <<>>, <<>>, 0, "")

ParsedValue(m) == ToolValue("parsed", "", m, <<>>, 0, "")

RawValue(key, text) == ToolValue("raw", key, text, <<>>, 0, "")

\* first.get('text', '')
TextOf(item) == IF item.text = NoText THEN <<>> ELSE item.text

\* try: return json.loads(txt) / except: return {key: txt}
LoadsOrRaw(txt, key) ==
    IF Loads(txt) # <<>> THEN ParsedValue(Loads(txt)[1]) ELSE RawValue(key, txt)

\* PlaywrightMCPClient.call_tool after _send_request
PWCallToolValue(resp) ==
    IF resp.kind # "result" THEN NoneValue
    ELSE LET res == resp.result[1]
         IN  IF res.has_content /\ res.content # <<>> /\ res.content[1].type = "text"
             THEN LoadsOrRaw(TextOf(res.content[1]), "raw")
             ELSE ToolValue("result", "", <<>>, resp.result, 0, "")

\* WorkingPyMCPClient.call_tool after _send_request
WKCallToolValue(resp) ==
    IF resp.kind # "result" THEN NoneValue
    ELSE LET res == resp.result[1]
         IN  IF res.has_content /\ res.content # <<>> /\ res.content[1].type = "text"
             THEN LoadsOrRaw(TextOf(res.content[1]), "raw")
             ELSE NoneValue

\* BasicPyMCPClient.call_tool after _read_response
BACallToolValue(resp) ==
    IF resp.kind # "result" THEN NoneValue
    ELSE LET res == resp.result[1]
         IN  IF res.has_content /\ res.content # <<>>
             THEN LoadsOrRaw(TextOf(res.content[1]), "raw_result")
             ELSE NoneValue

tool_unchanged ==
    <<parser_vars, client_vars, lifecycle_vars, task_vars, codec_vars, browser_vars,
      server_vars, response>>

\* PlaywrightMCPClient.call_tool returns
PWCallToolReturns ==
    /\ returned = NotReturned
    /\ returned' = [by |-> "playwright", value |-> PWCallToolValue(response)]
    /\ UNCHANGED tool_unchanged

\* WorkingPyMCPClient.call_tool returns
WKCallToolReturns ==
    /\ returned = NotReturned
    /\ returned' = [by |-> "working", value |-> WKCallToolValue(response)]
    /\ UNCHANGED tool_unchanged

\* BasicPyMCPClient.call_tool returns
BACallToolReturns ==
    /\ returned = NotReturned
    /\ returned' = [by |-> "basic", value |-> BACallToolValue(response)]
    /\ UNCHANGED tool_unchanged

ToolInit ==
    /\ snapshot = <<>>
    /\ config_creator = NoneStr
    /\ parse = NoParse
    /\ ClientConstructed("playwright")
    /\ peer_versions = {}
    /\ command = "free"
    /\ LifecycleUnused /\ TasksUnused /\ CodecUnused /\ BrowserConstructed /\ ServerUnused
    /\ response \in ToolResponses
    /\ returned = NotReturned

ToolNext ==
    \/ PWCallToolReturns
    \/ WKCallToolReturns
    \/ BACallToolReturns

ToolSpec == ToolInit /\ [][ToolNext]_vars

(* C19: when the peer answers a tool call with a JSON-RPC error object,    *)
(* call_tool hands that error on to the caller unchanged, with its code    *)
(* and message, so that it differs from what a timeout, an end of stream   *)
(* or a successful result gives.                                           *)
C19_RpcErrorPropagatedUnchanged ==
    (returned.by \in {"playwright", "working"} /\ response.kind = "error") =>
        returned.value = ToolValue("error", "", <<>>, <<>>, response.code, response.message)

(* C20: for a successful response whose content[0] is of type text,        *)
(* call_tool returns the parsed value when the text is JSON and            *)
(* {raw: text} when it is not; such a text never yields None.              *)
C20_TextContentUnwrapped ==
    (/\ returned.by # "none" /\ response.kind = "result"
     /\ response.result[1].content # <<>>
     /\ response.result[1].content[1].type = "text") =>
        LET txt == response.result[1].content[1].text
        IN  /\ returned.value # NoneValue
            /\ returned.value =
                   IF Loads(txt) # <<>> THEN ParsedValue(Loads(txt)[1]) ELSE RawValue("raw", txt)

----------------------------------------------------------------------------
(* BrowserManager (browser_manager.py) and the operations of               *)
(* DashboardExporter and DashboardImporter that drive it.  One caller      *)
(* awaits each operation to its end, so an operation is one step; what     *)
(* each tool call of the client gives is drawn: a value, None, or an       *)
(* exception.  b is the manager's state with the exception flag of the     *)
(* method that ran last: [launched, calls, raised].                        *)

\* `from vscode import ...` fails (no such module is importable), so
\* VSCODE_MCP_AVAILABLE, and with it use_vscode_mcp, is False
VSCODE_MCP_AVAILABLE == FALSE

ToolOutcomes == {"value", "None", "raise"}

\* await self.mcp_client.call_tool(name, ...), entered in the client's call log
CallToolOn(b, name, o) ==
    [launched |-> b.launched,
     calls |-> Append(b.calls, [name |-> name, raised |-> o = "raise"]),
     raised |-> o = "raise"]

\* a launch without `if self.browser_launched: return`
LaunchOnWithoutGuard(b, o) ==
    [CallToolOn(b, "browser_launch", o) EXCEPT !.launched = (o # "raise")]

\* BrowserManager.launch
LaunchOn(b, o) ==
    IF b.launched THEN [b EXCEPT !.raised = FALSE]
    ELSE IF VSCODE_MCP_AVAILABLE THEN [b EXCEPT !.launched = TRUE, !.raised = FALSE]
    ELSE [CallToolOn(b, "browser_launch", o) EXCEPT !.launched = (o # "raise")]

\* BrowserManager.navigate
NavigateOn(b, o) == CallToolOn(b, "browser_navigate", o)

\* BrowserManager.execute_script
ExecuteScriptOn(b, o) == CallToolOn(b, "browser_evaluate", o)

\* BrowserManager.snapshot
SnapshotOn(b, o) == CallToolOn(b, "browser_snapshot", o)

\* a close without the except and finally clauses: the exception of the tool
\* call propagates and the flag is cleared only after a call that returned
CloseOnPropagating(b, o) ==
    IF ~b.launched THEN [b EXCEPT !.raised = FALSE]
    ELSE [CallToolOn(b, "browser_close", o) EXCEPT !.launched = (o = "raise")]

\* BrowserManager.close
CloseOn(b, o) ==
    IF ~b.launched THEN [b EXCEPT !.raised = FALSE]
    ELSE [CallToolOn(b, "browser_close", o) EXCEPT !.launched = FALSE, !.raised = FALSE]

\* a close at the end of the try body: it runs only when nothing raised
CloseUnlessRaised(b, o, outcome) ==
    IF outcome = "raised" THEN b ELSE CloseOn(b, o)

\* `finally: await self.browser.close()` of export_dashboard and import_dashboard
FinallyClose(b, o, outcome) == CloseOn(b, o)

Browser == [launched |-> browser_launched, calls |-> calls, raised |-> FALSE]

\* what an operation leaves in flow: base is the length of the call log when it
\* began, launch_ok whether its browser.launch() returned, result the snapshot
\* result it got, parsed whether _parse_raw_snapshot_text ran
Flow(op, outcome, launch_ok, result, parsed, dashboards) ==
    [op |-> op, outcome |-> outcome, base |-> Len(calls), was_launched |-> browser_launched,
     launch_ok |-> launch_ok, result |-> result, parsed |-> parsed, dashboards |-> dashboards,
     input |-> "valid", error |-> IF outcome = "raised" THEN "Exception" ELSE "none"]

\* an operation that raised error on the input it was given
Rejected(f, input, error) == [f EXCEPT !.input = input, !.error = error]

\* the files import_dashboard is given: a dashboard file; no file; a file that is
\* not JSON; a JSON number, null or true; a JSON object or list without the
\* required fields
FileKinds == {"valid", "missing", "not_json", "scalar", "bad_structure"}

\* DashboardImporter._validate_dashboard_file: what it raises, "none" when it
\* returns.  validate_json_file is False for no file and for a file that is not
\* JSON; validate_dashboard_json evaluates `f in data`, a TypeError on a number,
\* null or true, and returns False on an object or list without the fields
ValidateDashboardFile(file) ==
    CASE file \in {"missing", "not_json"} -> "ValueError"
      [] file = "scalar" -> "TypeError"
      [] file = "bad_structure" -> "ValueError"
      [] OTHER -> "none"

Outcome(raised) == IF raised THEN "raised" ELSE "returned"

browser_unchanged ==
    <<parser_vars, client_vars, lifecycle_vars, task_vars, codec_vars, tool_vars, server_vars>>

\* an operation ends in browser state b
Ended(b, f) ==
    /\ browser_launched' = b.launched
    /\ calls' = b.calls
    /\ flow' = f
    /\ UNCHANGED browser_unchanged

CanStart == Len(calls) <= MaxCalls

\* await manager.launch()
Launch ==
    /\ CanStart
    /\ \E o \in ToolOutcomes :
          LET b == LaunchOn(Browser, o)
          IN Ended(b, Flow("launch", Outcome(b.raised), ~b.raised, "none", FALSE, <<>>))

\* await manager.close()
Close ==
    /\ CanStart
    /\ \E o \in ToolOutcomes :
          LET b == CloseOn(Browser, o)
          IN Ended(b, Flow("close", Outcome(b.raised), FALSE, "none", FALSE, <<>>))

\* await manager.navigate(url)
Navigate ==
    /\ CanStart
    /\ \E o \in ToolOutcomes :
          LET b == NavigateOn(Browser, o)
          IN Ended(b, Flow("navigate", Outcome(b.raised), FALSE, "none", FALSE, <<>>))
\* what browser.snapshot() hands to _get_dashboard_list: call_tool's value.  None,
\* an empty dict, a dict without "raw", a value that is no dict, a dict whose
\* "raw" is None, or a dict with the raw text
SnapshotResult(kind, raw) == [kind |-> kind, raw |-> raw]

NoSnapshotResult == SnapshotResult("none", <<>>)

SnapshotValues ==
    {SnapshotResult(k, <<>>) : k \in {"empty_dict", "no_raw", "not_dict", "raw_none"}}
    \cup {SnapshotResult("raw", t) : t \in SnapshotsOf(1)}

\* a snapshot result without "raw" read with a default: the empty text
RawTextOrDefault(result) ==
    IF result.kind \in {"raw", "raw_none"} THEN <<result.raw>> ELSE <<<<>>>>

\* `if isinstance(snapshot_result, dict) and "raw" in snapshot_result:
\*  raw_text = snapshot_result["raw"]`, <<>> for the else branch that raises
RawText(result) ==
    IF result.kind \in {"raw", "raw_none"} THEN <<result.raw>> ELSE <<>>

\* DashboardExporter._get_dashboard_list
GetDashboardList ==
    /\ CanStart
    /\ \E o_nav \in ToolOutcomes, o_snap \in ToolOutcomes, value \in SnapshotValues,
          dump_ok \in BOOLEAN :
          LET b1 == NavigateOn(Browser, o_nav)
              b2 == SnapshotOn(b1, o_snap)
              result == IF o_snap = "None" THEN SnapshotResult("None", <<>>) ELSE value
              Raised(b, r) == Ended(b, Flow("get_dashboard_list", "raised", FALSE, r, FALSE, <<>>))
          IN IF b1.raised THEN Raised(b1, NoSnapshotResult)
             ELSE IF b2.raised THEN Raised(b2, NoSnapshotResult)
             ELSE IF ~dump_ok THEN Raised(b2, result)
             ELSE IF result.kind \in {"None", "empty_dict"} THEN Raised(b2, result)
             ELSE IF RawText(result) = <<>> THEN Raised(b2, result)
             ELSE IF result.kind = "raw_none" THEN Raised(b2, result)
             ELSE Ended(b2, Flow("get_dashboard_list", "returned", FALSE, result, TRUE,
                                 ParseRawSnapshotText(RawText(result)[1])))

\* DashboardExporter.export_dashboard
ExportDashboard ==
    /\ CanStart
    /\ \E valid_url \in BOOLEAN, o_launch \in ToolOutcomes, o_nav \in ToolOutcomes,
          id_ok \in BOOLEAN, o_eval \in ToolOutcomes, data_ok \in BOOLEAN,
          write_ok \in BOOLEAN, o_close \in ToolOutcomes :
          LET b1 == LaunchOn(Browser, o_launch)
              b2 == NavigateOn(b1, o_nav)
              b3 == ExecuteScriptOn(b2, o_eval)
              Finally(b, outcome) ==
                  Ended(FinallyClose(b, o_close, outcome),
                        Flow("export_dashboard", outcome, ~b1.raised, NoSnapshotResult,
                             FALSE, <<>>))
          IN IF ~valid_url
             THEN Ended(Browser, Rejected(Flow("export_dashboard", "raised", FALSE,
                                               NoSnapshotResult, FALSE, <<>>),
                                          "invalid_url", "ValueError"))
             ELSE IF b1.raised THEN Finally(b1, "raised")
             ELSE IF b2.raised THEN Finally(b2, "raised")
             ELSE IF ~id_ok THEN Finally(b2, "raised")
             ELSE IF b3.raised \/ o_eval = "None" \/ ~data_ok THEN Finally(b3, "raised")
             ELSE IF ~write_ok THEN Finally(b3, "raised")
             ELSE Finally(b3, "returned")

\* DashboardImporter.import_dashboard
ImportDashboard ==
    /\ CanStart
    /\ \E file \in FileKinds, o_launch \in ToolOutcomes, o_nav \in ToolOutcomes,
          o_first \in ToolOutcomes, o_second \in ToolOutcomes, o_close \in ToolOutcomes :
          LET b1 == LaunchOn(Browser, o_launch)
              b2 == NavigateOn(b1, o_nav)
              b3 == ExecuteScriptOn(b2, o_first)
              b4 == IF b3.raised THEN ExecuteScriptOn(b3, o_second) ELSE b3
              Finally(b, outcome, launch_ok) ==
                  Ended(FinallyClose(b, o_close, outcome),
                        Flow("import_dashboard", outcome, launch_ok, NoSnapshotResult,
                             FALSE, <<>>))
          IN IF ValidateDashboardFile(file) # "none"
             THEN Ended(FinallyClose(Browser, o_close, "raised"),
                        Rejected(Flow("import_dashboard", "raised", FALSE, NoSnapshotResult,
                                      FALSE, <<>>),
                                 file, ValidateDashboardFile(file)))
             ELSE IF b1.raised THEN Finally(b1, "raised", FALSE)
             ELSE IF b2.raised THEN Finally(b2, "raised", TRUE)
             ELSE Finally(b4, "returned", TRUE)

BrowserInit ==
    /\ snapshot = <<>>
    /\ config_creator = NoneStr
    /\ parse = NoParse
    /\ ClientConstructed("playwright")
    /\ peer_versions = {}
    /\ command = "free"
    /\ LifecycleUnused /\ TasksUnused /\ CodecUnused /\ ToolUnused /\ ServerUnused
    /\ BrowserConstructed

BrowserNext ==
    \/ Launch
    \/ Close
    \/ Navigate
    \/ GetDashboardList
    \/ ExportDashboard
    \/ ImportDashboard

BrowserSpec == BrowserInit /\ [][BrowserNext]_vars

(* C21: when the snapshot call returns nothing, or a value that is not an  *)
(* object carrying a raw field, the dashboard-list step raises and runs no *)
(* parsing; a missing raw field is never replaced by a default: the step   *)
(* returns a dashboard list only for a result that carries raw.            *)
C21_MissingRawIsSurfaced ==
    flow.op = "get_dashboard_list" =>
        /\ flow.result.kind # "raw" => (flow.outcome = "raised" /\ ~flow.parsed)
        /\ flow.outcome = "returned" =>
              (flow.result.kind = "raw" /\ flow.parsed
               /\ flow.dashboards = ParseRawSnapshotText(flow.result.raw))

\* the snapshot call gave an object without raw and the step raised
C21_Witness ==
    /\ flow.op = "get_dashboard_list"
    /\ flow.result.kind = "no_raw"
    /\ flow.outcome = "raised"
    /\ calls # <<>> /\ calls[Len(calls)].name = "browser_snapshot"

(* C31: input validation precedes every browser action: export_dashboard   *)
(* with an invalid URL and import_dashboard with a missing, non-JSON or    *)
(* structurally invalid file, on a manager that is not launched, raise     *)
(* ValueError, issue no browser tool call and leave browser_launched       *)
(* false.                                                                  *)
C31_ValidationBeforeBrowser ==
    (/\ flow.op \in {"export_dashboard", "import_dashboard"}
     /\ flow.input # "valid" /\ ~flow.was_launched) =>
        /\ flow.outcome = "raised" /\ flow.error = "ValueError"
        /\ Len(calls) = flow.base
        /\ ~browser_launched

\* the index in log of the last browser_close call, 0 when there is none
LastClose(log) ==
    LET closes == {i \in DOMAIN log : log[i].name = "browser_close"}
    IN IF closes = {} THEN 0 ELSE CHOOSE i \in closes : \A j \in closes : j <= i

\* the calls of log after the last browser_close
SinceLastClose(log) == SubSeq(log, LastClose(log) + 1, Len(log))

\* the browser_launch calls of log
LaunchCalls(log) == {i \in DOMAIN log : log[i].name = "browser_launch"}

\* C28 as stated, for every launch call whether or not its tool call raises:
\* since the last close at most one browser_launch call was issued, and once
\* one was issued browser_launched is true
C28_OneLaunchCallSinceClose ==
    LET n == Cardinality(LaunchCalls(SinceLastClose(calls)))
    IN n <= 1 /\ (n = 1 => browser_launched)

(* C28: launch is idempotent for the launches that return: since the last  *)
(* close at most one browser_launch call has returned, browser_launched is *)
(* true exactly when one has, and so a launch after a close, or after a    *)
(* launch whose tool call raised, issues the call again.                   *)
C28_OneReturnedLaunchSinceClose ==
    LET since == SinceLastClose(calls)
        n == Cardinality({i \in LaunchCalls(since) : ~since[i].raised})
    IN n <= 1 /\ (browser_launched <=> n = 1)

\* a launch on a launched browser returned without a call, after an earlier
\* launch had raised and been repeated
C28_Witness ==
    /\ flow.op = "launch" /\ flow.outcome = "returned" /\ flow.was_launched
    /\ Len(calls) = flow.base /\ browser_launched
    /\ Cardinality(LaunchCalls(SinceLastClose(calls))) = 2

(* C29: close never raises and always ends with browser_launched false:    *)
(* on a browser that was not launched it issues no tool call, otherwise it *)
(* issues browser_close once, and an exception of that call is swallowed.  *)
C29_CloseNeverRaises ==
    flow.op = "close" =>
        /\ flow.outcome = "returned"
        /\ ~browser_launched
        /\ IF flow.was_launched
           THEN Len(calls) = flow.base + 1 /\ calls[Len(calls)].name = "browser_close"
           ELSE Len(calls) = flow.base

\* a close whose browser_close call raised
C29_Witness ==
    /\ flow.op = "close" /\ flow.was_launched /\ flow.outcome = "returned"
    /\ calls # <<>> /\ calls[Len(calls)] = [name |-> "browser_close", raised |-> TRUE]
    /\ ~browser_launched

\* the place of a tool call in the order launch, navigate, evaluate, close
CallRank(name) ==
    CASE name = "browser_launch" -> 1
      [] name = "browser_navigate" -> 2
      [] name = "browser_evaluate" -> 3
      [] name = "browser_close" -> 4
      [] OTHER -> 0

\* the calls the operation in flow issued
FlowCalls == SubSeq(calls, flow.base + 1, Len(calls))

(* C30: in export_dashboard and import_dashboard, once launch has          *)
(* returned, browser_close is issued exactly once and is the last call of  *)
(* the operation on every path, the calls come in the order launch,        *)
(* navigate, evaluate, close, and browser_launched is false at the end.    *)
C30_CloseIsFinalCall ==
    (flow.op \in {"export_dashboard", "import_dashboard"} /\ flow.launch_ok) =>
        /\ FlowCalls # <<>>
        /\ \A i \in DOMAIN FlowCalls :
              (FlowCalls[i].name = "browser_close") <=> (i = Len(FlowCalls))
        /\ \A i \in DOMAIN FlowCalls : CallRank(FlowCalls[i].name) > 0
        /\ \A i, j \in DOMAIN FlowCalls :
              i < j => CallRank(FlowCalls[i].name) <= CallRank(FlowCalls[j].name)
        /\ Cardinality(LaunchCalls(FlowCalls)) = IF flow.was_launched THEN 0 ELSE 1
        /\ ~browser_launched

\* an export whose extraction raised after launch and navigation
C30_Witness ==
    /\ flow.op = "export_dashboard" /\ flow.launch_ok /\ flow.outcome = "raised"
    /\ Len(FlowCalls) = 4
    /\ FlowCalls[3] = [name |-> "browser_evaluate", raised |-> TRUE]
    /\ FlowCalls[4].name = "browser_close"
    /\ ~browser_launched

----------------------------------------------------------------------------
(* The parsers on single rows: a row unit in the two line orders the page  *)
(* renders, with identifiers of several shapes and row texts with and      *)
(* without a date and a creator; and a row without a URL line followed by  *)
(* a complete one.                                                         *)

\* DashboardExporter._get_dashboard_id: url.split("/")[-1].split("?")[0]
GetDashboardId(url) ==
    LET segment == IF url # <<>> /\ Head(url) = UrlBase[1] THEN Tail(url) ELSE url
        cut == IndexOf(segment, "?")
    IN IF cut = 0 THEN segment ELSE SubSeq(segment, 1, cut - 1)

ShortId == <<"a", "b", "-", "1">>

HyphensOnly == [i \in 1..UuidLen |-> "-"]

LongId == GoodId \o <<"a">>

\* identifiers after /dashboards/ on the URL line; NoneStr for no URL line
RowIds == {GoodId, ShortId, HyphensOnly, LongId, NoneStr}

\* row texts: name, time, date and creator; no date; nothing after the date
RowTexts(c) ==
    {Armprod \o Sp \o TimeAgo \o Sp \o DateText \o Sp \o c,
     Armprod \o Sp \o TimeAgo \o Sp \o c,
     Armprod \o Sp \o TimeAgo \o Sp \o DateText}

RowUnit(url_first, row_text, id, has_header, creator) ==
    LET header == IF has_header
                  THEN <<Line("rowheader", Armprod), Line("link", Armprod)>> ELSE <<>>
        url == IF id = NoneStr THEN <<>> ELSE <<Line("url", id)>>
    IN <<Line("row", row_text)>>
       \o (IF url_first THEN url \o header ELSE header \o url)
       \o <<Line("gridcell", TimeAgo), Line("gridcell", DateText), Line("gridcell", creator)>>

\* the row of the example: "armprod about 1 hour ago 11/3/2020 Jason Gilbertson"
ArmprodUnit(url_first) ==
    RowUnit(url_first, Armprod \o Sp \o TimeAgo \o Sp \o DateText \o Sp \o JasonGilbertson,
            GoodId, TRUE, JasonGilbertson)

RowUnits ==
    UNION {{RowUnit(uf, t, id, h, c) : uf \in BOOLEAN, t \in RowTexts(c), id \in RowIds,
                                        h \in BOOLEAN} :
           c \in {JasonGilbertson, SomeoneElse}}

RowSnapshots ==
    RowUnits \cup {u \o ArmprodUnit(FALSE) : u \in {x \in RowUnits : OfKind(x, "url") = <<>>}}

RowInit ==
    /\ snapshot \in RowSnapshots
    /\ config_creator \in ConfigCreators
    /\ parse = NoParse
    /\ ClientConstructed("playwright")
    /\ peer_versions = {}
    /\ command = "free"
    /\ OthersUnused

RowSpec == RowInit /\ [][ParserNext]_vars

\* the entry points that run DashboardExporter._parse_raw_snapshot_text
ExporterEntries ==
    {"export_all_dashboards", "parse_dashboards_from_snapshot", "export_all_dashboards_tool"}

\* the identifier of an emitted record: the field of DashboardMetadata, and for
\* the exporter's record, which has none, the one the exporter reads off its url
IdOf(entry, d) ==
    IF entry \in ExporterEntries THEN GetDashboardId(d.url) ELSE d.dashboard_id

Sentinel == <<"-", "-">>

(* C23: every record the parser emits has all of its fields non-empty      *)
(* (name, url, dashboard id, creator); a row for which one of them cannot  *)
(* be discovered is discarded, never emitted with a blank or a placeholder *)
(* field.                                                                  *)
C23_EmittedFieldsNonEmpty ==
    parse.outcome = "returned" =>
        \A d \in Range(parse.parsed) :
            /\ Truthy(d.name) /\ Truthy(d.url) /\ Truthy(IdOf(parse.entry, d))
            /\ Truthy(d.creator) /\ d.creator # Sentinel

\* 8-4-4-4-12: hyphens at the four places and nowhere else
UuidShaped(id) ==
    /\ Len(id) = UuidLen
    /\ \A i \in 1..Len(id) : IF i \in {9, 14, 19, 24} THEN id[i] = "-"
                             ELSE id[i] \in HexChars \ {"-"}

(* C24: every emitted record's dashboard identifier has the canonical UUID *)
(* shape, 36 characters of hyphenated hex; a unit whose URL line has a     *)
(* dashboards path segment but no identifier of that shape (shorter,       *)
(* longer, hyphens only) is discarded.                                     *)
C24_EmittedIdIsUuid ==
    parse.outcome = "returned" =>
        \A d \in Range(parse.parsed) : UuidShaped(IdOf(parse.entry, d))

(* C25: a dashboard with a missing or unparseable creator (no date token   *)
(* in the row text, or nothing after the date) is excluded from the output *)
(* for every allowed required creator; the sentinel placeholder is never   *)
(* accepted as a required creator, and such a unit is never returned to    *)
(* the caller.                                                             *)
C25_MissingCreatorExcluded ==
    (/\ parse.entry \in ExporterEntries
     /\ parse.outcome = "returned"
     /\ Truthy(parse.required) /\ Strip(parse.required) # <<>>) =>
        /\ parse.required # Sentinel
        /\ \A d \in Range(parse.dashboards) : d.creator # Sentinel

----------------------------------------------------------------------------
(* KustoDashboardMCPServer (mcp_server.py): the run loop, handle_request   *)
(* and _create_response.  request is the line last read; reply is what the *)
(* loop printed for it (keys is empty when nothing was printed) and how    *)
(* the loop stands.                                                        *)

MethodNotFound == -32601

InternalError == -32603

ParseError == -32700

NoError == [code |-> 0]

\* _create_error
CreateError(code) == [code |-> code]

\* a _create_response that sets "result" whether or not there is an error
CreateResponseAlwaysResult(id, error) ==
    [id |-> id,
     keys |-> {"result"} \cup (IF error # NoError THEN {"error"} ELSE {}),
     code |-> error.code, run |-> "running"]

\* _create_response: `if error: response["error"] = error` `else:
\* response["result"] = result`
CreateResponse(id, error) ==
    [id |-> id,
     keys |-> IF error # NoError THEN {"error"} ELSE {"result"},
     code |-> error.code, run |-> "running"]

ServerTools ==
    {"parse_dashboards_from_snapshot", "export_dashboard", "import_dashboard",
     "validate_dashboard", "export_all_dashboards"}

\* how the body of a tool can end once its arguments were read:
\* _export_dashboard raises NotImplementedError; _import_dashboard reads
\* self.mcp_client, which nothing sets, and re-raises; _validate_dashboard
\* catches every exception; the two parsing tools re-raise what the parser raises
HandlerOutcomes(tool) ==
    CASE tool \in {"export_dashboard", "import_dashboard"} -> {"raises"}
      [] tool = "validate_dashboard" -> {"returns"}
      [] OTHER -> {"returns", "raises"}

RequestIds == {NullId} \cup (1..MaxRequests)

\* a JSON object read from stdin.  id is NullId when the object has no id; method
\* "None" when it has no method; params is "dict" (the default {} included) or
\* "not_dict"; tool is "None" when params has no name; arguments is "complete",
\* "incomplete" (a required key is missing, the default {} included) or
\* "not_dict"
ServerRequest(id, method, params, tool, arguments, handler) ==
    [shape |-> "object", id |-> id, method |-> method, params |-> params, tool |-> tool,
     arguments |-> arguments, handler |-> handler]

\* a line that is JSON but not an object
NotAnObject ==
    [shape |-> "not_object", id |-> NullId, method |-> "None", params |-> "dict",
     tool |-> "None", arguments |-> "incomplete", handler |-> "returns"]

\* a line that is not JSON
InvalidJson == [NotAnObject EXCEPT !.shape = "invalid_json"]

ServerRequests ==
    {ServerRequest(id, m, "dict", "None", "incomplete", "returns") :
        id \in RequestIds, m \in {"initialize", "tools/list", "other/method", "None"}}
    \cup {ServerRequest(id, "tools/call", "not_dict", "None", "incomplete", "returns") :
             id \in RequestIds}
    \cup {ServerRequest(id, "tools/call", "dict", t, "incomplete", "returns") :
             id \in RequestIds, t \in {"unknown_tool", "None"}}
    \cup {ServerRequest(id, "tools/call", "dict", t, a, "returns") :
             id \in RequestIds, t \in ServerTools, a \in {"incomplete", "not_dict"}}
    \cup UNION {{ServerRequest(id, "tools/call", "dict", t, "complete", h) :
                    id \in RequestIds, h \in HandlerOutcomes(t)} : t \in ServerTools}
    \cup {NotAnObject}

\* the body of the try of handle_request: "result", the code of the error it
\* returns, or "raise"
TryBody(req) ==
    CASE req.method \in {"initialize", "tools/list"} -> "result"
      [] req.method = "tools/call" ->
            IF req.params # "dict" THEN "raise"
            ELSE IF req.tool \notin ServerTools THEN "unknown_tool"
            ELSE IF req.arguments # "complete" THEN "raise"
            ELSE IF req.handler = "raises" THEN "raise"
            ELSE "result"
      [] OTHER -> "unknown_method"

\* handle_request on a JSON object
HandleRequest(req) ==
    CASE TryBody(req) = "result" -> CreateResponse(req.id, NoError)
      [] TryBody(req) \in {"unknown_tool", "unknown_method"} ->
            CreateResponse(req.id, CreateError(MethodNotFound))
      [] OTHER -> CreateResponse(req.id, CreateError(InternalError))

\* one turn of run's loop on a line that is JSON: handle_request and the print.
\* On a value that is not an object request.get raises AttributeError before the
\* try; run catches JSONDecodeError and KeyboardInterrupt only, and the loop ends
\* with nothing printed
ServeLine ==
    /\ reply.run = "running"
    /\ \E req \in ServerRequests :
          /\ request' = req
          /\ reply' = IF req.shape = "object"
                      THEN HandleRequest(req)
                      ELSE [NoReply EXCEPT !.run = "crashed"]

\* one turn of run's loop on a line that is not JSON: the parse error
ServeInvalidLine ==
    /\ reply.run = "running"
    /\ request' = InvalidJson
    /\ reply' = CreateResponse(NullId, CreateError(ParseError))

\* `if not line: break`
ServeEof ==
    /\ reply.run = "running"
    /\ reply' = [reply EXCEPT !.run = "stopped"]
    /\ UNCHANGED request

server_unchanged ==
    <<parser_vars, client_vars, lifecycle_vars, task_vars, codec_vars, tool_vars, browser_vars>>

ServerInit ==
    /\ snapshot = <<>>
    /\ config_creator = NoneStr
    /\ parse = NoParse
    /\ ClientConstructed("playwright")
    /\ peer_versions = {}
    /\ command = "free"
    /\ OthersUnused

ServerNext ==
    \/ ServeLine /\ UNCHANGED server_unchanged
    \/ ServeInvalidLine /\ UNCHANGED server_unchanged
    \/ ServeEof /\ UNCHANGED server_unchanged

ServerSpec == ServerInit /\ [][ServerNext]_vars

(* C27: every response the server prints carries exactly one of result and *)
(* error, and its id is the id of the request it answers, whatever the     *)
(* method and also when the handler raises.                                *)
C27_OneOfResultErrorAndSameId ==
    reply.keys # {} =>
        /\ Cardinality(reply.keys \cap {"result", "error"}) = 1
        /\ reply.id = request.id

C27_Witness ==
    /\ request.method = "tools/call" /\ request.tool = "export_dashboard"
    /\ request.arguments = "complete" /\ request.id # NullId
    /\ reply.keys = {"error"} /\ reply.code = InternalError /\ reply.id = request.id

(* C35: each emitted record is built from its own row unit alone: there is *)
(* a row line whose text gives the record's creator and whose own lines,   *)
(* those before the next row line, hold the record's rowheader and its     *)
(* URL; a row without a URL never takes the URL of a following row.        *)
RowIndices(lines) == {p \in DOMAIN lines : RowMatch(lines[p])}

\* the last line of the unit of the row at p: the line before the next row line
UnitEnd(lines, p) ==
    LET later == {q \in RowIndices(lines) : q > p}
    IN IF later = {} THEN Len(lines)
       ELSE (CHOOSE q \in later : \A q2 \in later : q <= q2) - 1

C35_RecordFromOwnUnit ==
    (parse.entry \in ExporterEntries /\ parse.outcome = "returned") =>
        \A d \in Range(parse.parsed) :
            \E p \in RowIndices(snapshot) :
                /\ d.creator = ExtractCreator(snapshot[p].text)
                /\ \E j \in (p + 1)..UnitEnd(snapshot, p) :
                      UrlMatch(snapshot[j]) /\ d.url = UrlBase \o HexPrefix(snapshot[j].text)
                /\ \E j \in (p + 1)..UnitEnd(snapshot, p) :
                      NameMatch(snapshot[j]) /\ d.name = snapshot[j].text

----------------------------------------------------------------------------
(* The look-ahead window and the creator of a row: one row line followed   *)
(* by LookaheadSpan + 1 lines, with the rowheader and the URL line at each *)
(* pair of places among them; and single rows whose text has date-like     *)
(* tokens.                                                                 *)

\* the row line, then the rowheader d_name lines and the URL d_url lines after it
WindowUnit(d_name, d_url) ==
    <<Line("row", Armprod \o Sp \o TimeAgo \o Sp \o DateText \o Sp \o JasonGilbertson)>>
    \o [d \in 1..(LookaheadSpan + 1) |->
           IF d = d_name THEN Line("rowheader", Armprod)
           ELSE IF d = d_url THEN Line("url", GoodId)
           ELSE Line("gridcell", TimeAgo)]

WindowPlaces ==
    {w \in (1..(LookaheadSpan + 1)) \X (1..(LookaheadSpan + 1)) : w[1] # w[2]}

WindowSnapshots == {WindowUnit(w[1], w[2]) : w \in WindowPlaces}

\* a token that starts like a date and goes on: 1/3/20200
LongYear == DateText \o <<"0">>

\* row texts: a token with a year of five digits before the date; the date in the
\* name as well; runs of blanks; nothing after the date
DateRowTexts ==
    {Armprod \o Sp \o LongYear \o Sp \o DateText \o Sp \o JasonGilbertson,
     Armprod \o Sp \o TimeAgo \o Sp \o DateText \o Sp \o JasonGilbertson,
     DateText \o Sp \o TimeAgo \o Sp \o DateText \o Sp \o JasonGilbertson,
     Armprod \o Sp \o Sp \o DateText \o Sp \o Sp \o <<"J">> \o Sp \o Sp \o <<"G">> \o Sp,
     Armprod \o Sp \o TimeAgo \o Sp \o DateText}

DateSnapshots == {RowUnit(FALSE, t, GoodId, TRUE, JasonGilbertson) : t \in DateRowTexts}

WindowInit ==
    /\ snapshot \in WindowSnapshots \cup DateSnapshots
    /\ config_creator \in ConfigCreators
    /\ parse = NoParse
    /\ ClientConstructed("playwright")
    /\ peer_versions = {}
    /\ command = "free"
    /\ OthersUnused

WindowSpec == WindowInit /\ [][ParserNext]_vars

(* C33: the look-ahead of a row line consults the next LookaheadSpan lines *)
(* and no more: the row gives a record exactly when its rowheader and its  *)
(* URL line are both among the LookaheadSpan lines that follow it, the     *)
(* last of them included.                                                  *)
C33_WindowOfTenLines ==
    (parse.entry \in ExporterEntries /\ parse.outcome = "returned") =>
        \A w \in WindowPlaces :
            snapshot = WindowUnit(w[1], w[2]) =>
                (Len(parse.parsed) = 1 <=> (w[1] <= LookaheadSpan /\ w[2] <= LookaheadSpan))

\* re.fullmatch of the date pattern: a token that is M/D/YYYY and nothing more
FullDateMatch(part) ==
    \E a \in 1..2, b \in 1..2 :
        /\ Len(part) = a + b + 6
        /\ IsDigits(SubSeq(part, 1, a))
        /\ part[a + 1] = "/"
        /\ IsDigits(SubSeq(part, a + 2, a + b + 1))
        /\ part[a + b + 2] = "/"
        /\ IsDigits(SubSeq(part, a + b + 3, a + b + 6))

\* the tokens after the first token shaped like a date, joined by single blanks
RECURSIVE TokensAfterDate(_)
TokensAfterDate(parts) ==
    IF parts = <<>> THEN <<>>
    ELSE IF FullDateMatch(Head(parts)) THEN Join(Tail(parts))
    ELSE TokensAfterDate(Tail(parts))

(* C34: the creator of an emitted record is exactly the tokens of its row  *)
(* text that follow the first token shaped like an M/D/YYYY date, joined   *)
(* by single blanks and trimmed; no token at or before that date is part   *)
(* of the creator.                                                         *)
C34_CreatorIsTokensAfterDate ==
    (/\ parse.entry \in ExporterEntries /\ parse.outcome = "returned"
     /\ snapshot \in DateSnapshots /\ Len(parse.parsed) = 1
     /\ \E i \in DOMAIN Split(snapshot[1].text) : FullDateMatch(Split(snapshot[1].text)[i])) =>
        parse.parsed[1].creator = Strip(TokensAfterDate(Split(snapshot[1].text)))

(* C38: the run loop survives malformed input: a line that is not valid    *)
(* JSON is answered with one Parse error response (code -32700, id null)   *)
(* and the loop goes on; a request line is answered with one response      *)
(* carrying its id and the loop goes on; only the end of the input ends    *)
(* the loop.                                                               *)
C38_LoopSurvivesMalformedInput ==
    request.method # "none" =>
        /\ request.shape = "invalid_json" =>
              (reply.keys = {"error"} /\ reply.code = ParseError /\ reply.id = NullId)
        /\ (request.shape = "object" /\ request.id # NullId) =>
              (Cardinality(reply.keys) = 1 /\ reply.id = request.id)
        /\ reply.run \in {"running", "stopped"}

(* C39: the server writes no response for a one-way notification, a        *)
(* message with no id such as notifications/initialized: the next line a   *)
(* client reads after sending it and then a request is the response to     *)
(* that request.                                                           *)
C39_NoResponseToNotification ==
    (request.method # "none" /\ request.shape = "object" /\ request.id = NullId) =>
        reply.keys = {}

----------------------------------------------------------------------------
(* DashboardExporter._enrich_dashboard_data.  A dashboard object is the    *)
(* sequence of its key/value pairs in insertion order, as a Python dict    *)
(* keeps them; flow holds the call made last and what it returned.         *)

ExporterVersion == <<"1", ".", "0", ".", "0">>

Pair(key, value) == [key |-> key, value |-> value]

\* a value of the dashboard read from the page
Plain(text) == [text |-> text]

\* the keys of a dict, in order
Keys(dict) == [i \in DOMAIN dict |-> dict[i].key]

\* d[key] = value on a dict: a key that is there keeps its place and takes the
\* new value, a new key goes to the end
SetItem(dict, key, value) ==
    IF \E i \in DOMAIN dict : dict[i].key = key
    THEN [i \in DOMAIN dict |-> IF dict[i].key = key THEN Pair(key, value) ELSE dict[i]]
    ELSE Append(dict, Pair(key, value))

\* {**a, **b}: the items of b set on a, in b's order
RECURSIVE Update(_, _)
Update(a, b) ==
    IF b = <<>> THEN a ELSE Update(SetItem(a, Head(b).key, Head(b).value), Tail(b))

\* the _metadata object of the export (exportedAt, the time of the export, is left
\* out)
Metadata(url) ==
    [sourceUrl |-> url, dashboardId |-> GetDashboardId(url),
     exporterVersion |-> ExporterVersion]

\* _enrich_dashboard_data: {"_metadata": {...}, **dashboard_data}
EnrichDashboardData(dashboard_data, url) ==
    Update(<<Pair("_metadata", Metadata(url))>>, dashboard_data)

DashboardKeys == {"_metadata", "name", "tiles"}

\* dashboard objects of at most MaxKeys keys
DashboardObjects ==
    {d \in SeqsUpTo({Pair(k, Plain(v)) : k \in DashboardKeys, v \in {"v1", "v2"}}, MaxKeys) :
        \A i, j \in DOMAIN d : d[i].key = d[j].key => i = j}

SourceUrls ==
    {UrlBase \o GoodId, UrlBase \o ShortId, UrlBase \o ShortId \o <<"?", "a">>, UrlBase}

\* exporter._enrich_dashboard_data(dashboard_data, url)
Enrich ==
    /\ \E d \in DashboardObjects, url \in SourceUrls :
          flow' = [op |-> "enrich_dashboard_data", data |-> d, url |-> url,
                   result |-> EnrichDashboardData(d, url)]
    /\ UNCHANGED <<browser_launched, calls, browser_unchanged>>

EnrichInit == BrowserInit

EnrichNext == Enrich

EnrichSpec == EnrichInit /\ [][EnrichNext]_vars

(* C32: for every dashboard object and source URL, the enriched object has *)
(* _metadata as its first key, with sourceUrl the given URL, dashboardId   *)
(* the id read off that URL and exporterVersion 1.0.0, and every other key *)
(* of the input is kept with its value.                                    *)
C32_EnrichedMetadata ==
    flow.op = "enrich_dashboard_data" =>
        /\ flow.result[1] =
              Pair("_metadata", [sourceUrl |-> flow.url,
                                 dashboardId |-> GetDashboardId(flow.url),
                                 exporterVersion |-> ExporterVersion])
        /\ \A i \in DOMAIN flow.data :
              flow.data[i].key # "_metadata" => flow.data[i] \in Range(flow.result)
        /\ Range(Keys(flow.result)) = {"_metadata"} \cup Range(Keys(flow.data))

----------------------------------------------------------------------------
(* DashboardExporter.export_all_dashboards: the launch, the dashboard      *)
(* list, the creator filter and the loop over the dashboards to export.    *)
(* What happens to each dashboard is drawn: it is exported, or its         *)
(* navigation, its extraction or the write of its file raises.             *)

Fates == {"success", "navigate_raises", "extract_raises", "write_raises"}

NoResults == [total_found |-> 0, filtered |-> 0, exported |-> 0, failed |-> 0, dashboards |-> <<>>]

\* the end of the try body of the loop: the counter and the entry of a success
OnExported(results, url) ==
    [results EXCEPT !.exported = @ + 1,
                    !.dashboards = Append(@, [url |-> url, status |-> "success"])]

\* an except clause that counts the failure and appends no entry
OnExportFailureCountOnly(results, url) ==
    [results EXCEPT !.failed = @ + 1]

\* `except Exception as e:` of the loop: the counter and the entry of a failure
OnExportFailure(results, url) ==
    [results EXCEPT !.failed = @ + 1,
                    !.dashboards = Append(@, [url |-> url, status |-> "failed"])]

\* `for i, dashboard in enumerate(dashboards, 1)`: from the i-th dashboard on, in
\* browser state b
RECURSIVE ExportEach(_, _, _, _, _)
ExportEach(dashboards, fates, i, results, b) ==
    IF i > Len(dashboards) THEN [results |-> results, b |-> b]
    ELSE LET url == dashboards[i].url
             b1 == NavigateOn(b, IF fates[i] = "navigate_raises" THEN "raise" ELSE "value")
             b2 == IF b1.raised THEN b1
                   ELSE ExecuteScriptOn(b1, IF fates[i] = "extract_raises"
                                            THEN "raise" ELSE "value")
         IN IF fates[i] = "success"
            THEN ExportEach(dashboards, fates, i + 1, OnExported(results, url), b2)
            ELSE ExportEach(dashboards, fates, i + 1, OnExportFailure(results, url), b2)

\* the units of the list page of a bulk export: complete rows of two creators
ListedUnits ==
    {UnitLines(Armprod \o Sp \o TimeAgo \o Sp \o DateText \o Sp \o c, TRUE, c) :
        c \in {JasonGilbertson, SomeoneElse}}

RECURSIVE ListPagesOf(_)
ListPagesOf(n) ==
    IF n = 0 THEN {<<>>}
    ELSE ListPagesOf(n - 1) \cup {s \o u : s \in ListPagesOf(n - 1), u \in ListedUnits}

ListPages == ListPagesOf(MaxDashboards)

BulkFilters == {NoneStr, JasonGilbertson, <<"G">>}

\* what a bulk export leaves in flow: listed is the filtered list it looped over
BulkFlow(outcome, launch_ok, results, listed) ==
    [op |-> "export_all_dashboards", outcome |-> outcome, base |-> Len(calls),
     was_launched |-> browser_launched, launch_ok |-> launch_ok, results |-> results,
     listed |-> listed]

\* DashboardExporter.export_all_dashboards
BulkExport ==
    /\ CanStart
    /\ \E creator_filter \in BulkFilters, o_launch \in {"value", "raise"},
          o_snap \in {"value", "None"}, page \in ListPages,
          fates \in [1..MaxDashboards -> Fates], o_close \in ToolOutcomes :
          LET effective == IF creator_filter = NoneStr
                           THEN (IF config_creator = NoneStr THEN <<>> ELSE config_creator)
                           ELSE creator_filter
              b1 == LaunchOn(Browser, o_launch)
              b2 == SnapshotOn(NavigateOn(b1, "value"), o_snap)
              found == ParseRawSnapshotText(page)
              dashboards == FilterByCreatorSubstring(found, effective)
              looped == ExportEach(dashboards, fates, 1,
                                   [NoResults EXCEPT !.total_found = Len(found),
                                                     !.filtered = Len(dashboards)],
                                   b2)
          IN IF b1.raised
             THEN Ended(FinallyClose(b1, o_close, "raised"),
                        BulkFlow("raised", FALSE, NoResults, <<>>))
             ELSE IF o_snap # "value"
             THEN Ended(FinallyClose(b2, o_close, "raised"),
                        BulkFlow("raised", TRUE, NoResults, <<>>))
             ELSE Ended(FinallyClose(looped.b, o_close, "returned"),
                        BulkFlow("returned", TRUE, looped.results, dashboards))

BulkInit == BrowserInit

BulkNext == BulkExport

BulkSpec == BulkInit /\ [][BulkNext]_vars

====
